---- MODULE Spec2Model ----
(***************************************************************************)
(* Model of the syslog layer of tdrn-org/go-log: the streaming decoder     *)
(* (syslog_decoder.go), the encoder (SyslogHandler, messageBuilder) and    *)
(* the transport writer (syslogWriter).                                    *)
(*                                                                         *)
(* Bytes are one-character strings; byte strings are sequences of them.    *)
(* Offsets are 0-based as in the Go code, raw[off] is At(raw, off).        *)
(***************************************************************************)
EXTENDS Integers, Sequences, FiniteSets, TLC

VARIABLES
    \* SyslogDecoder (syslog_decoder.go:472-478)
    buffer,           \* bytes.Buffer: the unread bytes, as a byte stream
    state,            \* syslogDecoderState
    decoding,         \* *UndecodedSyslogMessage: NilMsg or Msg(raw)
    octets,           \* declared length of the octet frame
    octetsRemaining,  \* payload bytes still missing
    \* the Decode() call in progress
    pc,               \* "idle", "decode", "unknown_read", "unknown_switch", "panic"
    nextByte,         \* decodeUnknown's local
    messages,         \* Decode's local slice
    \* the decoder's environment
    pending,          \* bytes of the input stream not fed yet
    fed,              \* all bytes fed so far
    emitted,          \* all messages returned by Decode so far
    decodedUpTo,      \* how many bytes had been fed when Decode was last called
    \* the sender: SyslogHandler and the record it handled last
    handler,
    record,
    wire,             \* the bytes Handle passed to its sink
    sink,             \* the Write calls Handle made on its sink: one slice each
    \* syslogWriter and its callers
    network,          \* w.network
    conn,             \* w.conn: 0 is nil, else a connection id
    mutex,            \* holder of w.mutex: 0 is unlocked, else a caller
    conns,            \* every connection dialed so far: id -> "open" | "closed"
    wpc,              \* per caller: position in Write / Close
    wlocal,           \* per caller: locals and counters of the call in progress
    wcalls,           \* calls started so far
    \* messageBuilder's groupStack
    stack,            \* the slices groups and path, and the arrays behind them
    open,             \* the groups pushed and not popped yet, outermost first
    \* fileWriter and the file system it writes to
    fw,               \* fileWriter: fileName, fileSizeLimit, file, lastErr
    files,            \* the files that exist: name -> size
    handles,          \* the names of the open file handles
    stderr,           \* the slices written to os.Stderr
    ret,              \* what the last Write returned, and what it did
    today             \* the date of time.Now()

decoderVars == <<buffer, state, decoding, octets, octetsRemaining, pc, nextByte, messages>>
envVars == <<pending, fed, emitted, decodedUpTo>>
senderVars == <<handler, record, wire, sink>>
writerVars == <<network, conn, mutex, conns, wpc, wlocal, wcalls>>
builderVars == <<stack, open>>
fileVars == <<fw, files, handles, stderr, ret, today>>
otherVars == <<builderVars, fileVars>>
vars == <<decoderVars, envVars, senderVars, writerVars, otherVars>>

----------------------------------------------------------------------------
(* Bounds of the model. *)

\* longest arbitrary input stream over Alphabet
MaxStream == 4
\* calls of Write/Close made on one syslogWriter
MaxCalls == 4
\* dial attempts of one syslogWriter
MaxDials == 3
\* well-formed frames in one input stream
MaxFrames == 2
\* WithAttrs calls that lead to one handler
MaxWithAttrs == 2

----------------------------------------------------------------------------
(* Bytes and byte strings. *)

At(raw, off) == raw[off + 1]

\* raw[from:to]
Slice(raw, from, to) == SubSeq(raw, from + 1, to)

Digits == {"0", "1", "2", "3", "4", "5", "6", "7", "8", "9"}

DigitVal(b) ==
    CASE b = "0" -> 0 [] b = "1" -> 1 [] b = "2" -> 2 [] b = "3" -> 3 [] b = "4" -> 4
      [] b = "5" -> 5 [] b = "6" -> 6 [] b = "7" -> 7 [] b = "8" -> 8 [] b = "9" -> 9

DigitChar(n) ==
    CASE n = 0 -> "0" [] n = 1 -> "1" [] n = 2 -> "2" [] n = 3 -> "3" [] n = 4 -> "4"
      [] n = 5 -> "5" [] n = 6 -> "6" [] n = 7 -> "7" [] n = 8 -> "8" [] n = 9 -> "9"

RECURSIVE Itoa(_)
\* strconv.Itoa
Itoa(n) ==
    IF n < 0 THEN <<"-">> \o Itoa(0 - n)
    ELSE IF n < 10 THEN <<DigitChar(n)>>
    ELSE Itoa(n \div 10) \o <<DigitChar(n % 10)>>

\* all sequences over S of length at most n
SeqsUpTo(S, n) == UNION {[1..k -> S] : k \in 0..n}

----------------------------------------------------------------------------
(* time.Time, time.Format and time.Parse for the two layouts the code uses. *)
(* A time is a year, the last digit of its seconds and its nanoseconds; the *)
(* rest of the date is fixed (Oct 11 22:14:1x, UTC).                        *)

LF == "\n"
SP == " "
QUOTE == "\""
BSLASH == "\\"

ZeroTime == [year |-> 0, sec |-> 0, nsec |-> 0]

\* "Oct 11 22:14:1", the first 14 bytes of a time.Stamp text
StampPrefix == <<"O", "c", "t", " ", "1", "1", " ", "2", "2", ":", "1", "4", ":", "1">>

\* "-10-11T22:14:1", what follows the year in a time.RFC3339 text
RFC3339Middle == <<"-", "1", "0", "-", "1", "1", "T", "2", "2", ":", "1", "4", ":", "1">>

\* len(time.Stamp)
StampLen == Len(StampPrefix) + 1

\* t.Format(time.Stamp): no year, no zone, no fraction
FormatStamp(t) == StampPrefix \o <<DigitChar(t.sec)>>

\* t.Format(time.RFC3339): no fraction
FormatRFC3339(t) == Itoa(t.year) \o RFC3339Middle \o <<DigitChar(t.sec), "Z">>

\* time.Parse(time.Stamp, s): the year of the result is 0
ParseStamp(s) ==
    IF Len(s) = StampLen /\ SubSeq(s, 1, StampLen - 1) = StampPrefix /\ s[StampLen] \in Digits
    THEN [ok |-> TRUE, val |-> [year |-> 0, sec |-> DigitVal(s[StampLen]), nsec |-> 0]]
    ELSE [ok |-> FALSE, val |-> ZeroTime]

\* time.Parse(time.RFC3339Nano, s): the fraction is optional
ParseRFC3339Nano(s) ==
    LET n == Len(RFC3339Middle)
        head == Len(s) >= 4 + n + 2
                /\ \A i \in 1..4 : s[i] \in Digits
                /\ s[1] # "0"
                /\ SubSeq(s, 5, 4 + n) = RFC3339Middle
                /\ s[5 + n] \in Digits
        year == 1000 * DigitVal(s[1]) + 100 * DigitVal(s[2]) + 10 * DigitVal(s[3]) + DigitVal(s[4])
        tail == SubSeq(s, 6 + n, Len(s))
    IN  IF head /\ tail = <<"Z">>
        THEN [ok |-> TRUE, val |-> [year |-> year, sec |-> DigitVal(s[5 + n]), nsec |-> 0]]
        ELSE IF head /\ tail = <<".", "0", "0", "3", "Z">>
        THEN [ok |-> TRUE, val |-> [year |-> year, sec |-> DigitVal(s[5 + n]), nsec |-> 3000000]]
        ELSE [ok |-> FALSE, val |-> ZeroTime]

----------------------------------------------------------------------------
(* Syslog messages. Every variant carries its raw bytes; the fields a     *)
(* variant does not have hold their zero values.                           *)

UndecodedSyslogMessage(raw) ==
    [kind |-> "Undecoded", raw |-> raw, Facility |-> 0, Priority |-> 0, Version |-> 0,
     Timestamp |-> ZeroTime, Hostname |-> <<>>, MessageTag |-> <<>>, MessageContent |-> <<>>,
     AppName |-> <<>>, ProcID |-> <<>>, MsgID |-> <<>>, SD |-> <<>>, Msg |-> <<>>]

RFC3164SyslogMessage(raw, facility, priority, timestamp, hostname, tag, content) ==
    [UndecodedSyslogMessage(raw) EXCEPT !.kind = "RFC3164", !.Facility = facility,
        !.Priority = priority, !.Timestamp = timestamp, !.Hostname = hostname,
        !.MessageTag = tag, !.MessageContent = content]

RFC5424SyslogMessage(raw, facility, priority, timestamp, hostname, appName, procID, msgID, sd, msg) ==
    [UndecodedSyslogMessage(raw) EXCEPT !.kind = "RFC5424", !.Facility = facility,
        !.Priority = priority, !.Version = 1, !.Timestamp = timestamp, !.Hostname = hostname,
        !.AppName = appName, !.ProcID = procID, !.MsgID = msgID, !.SD = sd, !.Msg = msg]

\* the message in progress: a nil pointer or a message with its raw bytes
NilMsg == [nil |-> TRUE, raw |-> <<>>]
Msg(raw) == [nil |-> FALSE, raw |-> raw]

----------------------------------------------------------------------------
(* The grammar: UndecodedSyslogMessage.decode and what it calls.            *)
(* A decodeX operator returns [off, val]; off = -1 is the code's failure.   *)
(* The code's chains "decodeOff = m.decodeX(decodeOff); if decodeOff < 0    *)
(* { return m }" are lists of fields, run in order by runFields on a parse  *)
(* state that holds the offset and the values decoded so far.               *)

Fail == [off |-> -1, val |-> <<>>]

decodeByte(raw, off, b) ==
    IF off >= Len(raw) \/ At(raw, off) # b THEN -1 ELSE off + 1

RECURSIVE priLoop(_, _, _, _)
\* priLoop that takes a PRI without a digit for 0
priLoopEmpty(raw, off, decodeOff, pri) ==
    IF decodeOff >= Len(raw) THEN [off |-> -1, val |-> 0]
    ELSE IF At(raw, decodeOff) \in Digits
    THEN priLoop(raw, off, decodeOff + 1, 10 * pri + DigitVal(At(raw, decodeOff)))
    ELSE [off |-> decodeOff, val |-> pri]

priLoop(raw, off, decodeOff, pri) ==
    IF decodeOff >= Len(raw) THEN [off |-> -1, val |-> 0]
    ELSE IF At(raw, decodeOff) \in Digits
    THEN priLoop(raw, off, decodeOff + 1, 10 * pri + DigitVal(At(raw, decodeOff)))
    ELSE IF decodeOff = off THEN [off |-> -1, val |-> 0]
    ELSE [off |-> decodeOff, val |-> pri]

\* decodePRI: [off, val] with val the PRI value; facility and priority are
\* val >> 3 and val & 0x7
decodePRI(raw, off) == priLoop(raw, off, off, 0)

priFacility(pri) == pri \div 8

priPriority(pri) == pri % 8

RECURSIVE stringEnd(_, _)
stringEnd(raw, decodeOff) ==
    IF At(raw, decodeOff) \in {SP, LF} THEN decodeOff
    ELSE IF decodeOff + 1 >= Len(raw) THEN decodeOff + 1
    ELSE stringEnd(raw, decodeOff + 1)

stringTo(raw, off, end) == [off |-> end, val |-> Slice(raw, off, end)]

decodeString(raw, off) ==
    IF off >= Len(raw) THEN Fail ELSE stringTo(raw, off, stringEnd(raw, off))

RECURSIVE trailerLoop(_, _, _)
trailerLoop(raw, off, decodeOff) ==
    IF At(raw, decodeOff) = LF THEN [off |-> decodeOff + 1, val |-> Slice(raw, off, decodeOff)]
    ELSE IF decodeOff + 1 >= Len(raw) THEN [off |-> decodeOff + 1, val |-> Slice(raw, off, Len(raw))]
    ELSE trailerLoop(raw, off, decodeOff + 1)

decodeTrailer(raw, off) ==
    IF off >= Len(raw) THEN Fail ELSE trailerLoop(raw, off, off)

timeParse(layout, s) ==
    IF layout = "Stamp" THEN ParseStamp(s) ELSE ParseRFC3339Nano(s)

\* decodeTimestamp once the timestamp's text is cut out
timestampOf(layout, str) ==
    IF str.off < 0 \/ ~timeParse(layout, str.val).ok THEN [off |-> -1, val |-> ZeroTime]
    ELSE [off |-> str.off, val |-> timeParse(layout, str.val).val]

decodeTimestamp(raw, off, layout, layoutLen) ==
    IF layoutLen > 0
    THEN IF off + layoutLen >= Len(raw) THEN [off |-> -1, val |-> ZeroTime]
         ELSE timestampOf(layout, stringTo(raw, off, off + layoutLen))
    ELSE timestampOf(layout, decodeString(raw, off))

RECURSIVE sdParamKeyLoop(_, _, _)
sdParamKeyLoop(raw, decodeOff, key) ==
    IF decodeOff >= Len(raw) THEN Fail
    ELSE IF At(raw, decodeOff) = "=" THEN [off |-> decodeOff, val |-> key]
    ELSE sdParamKeyLoop(raw, decodeOff + 1, Append(key, At(raw, decodeOff)))

decodeSDParamKey(raw, off) == sdParamKeyLoop(raw, off, <<>>)

\* a value loop that keeps the backslash of an escape in the value
RECURSIVE sdParamValueLoopRaw(_, _, _, _)
sdParamValueLoopRaw(raw, decodeOff, escaped, value) ==
    IF decodeOff >= Len(raw) THEN Fail
    ELSE IF escaped
    THEN sdParamValueLoopRaw(raw, decodeOff + 1, FALSE, value \o <<BSLASH, At(raw, decodeOff)>>)
    ELSE IF At(raw, decodeOff) = QUOTE THEN [off |-> decodeOff, val |-> value]
    ELSE IF At(raw, decodeOff) = BSLASH THEN sdParamValueLoopRaw(raw, decodeOff + 1, TRUE, value)
    ELSE sdParamValueLoopRaw(raw, decodeOff + 1, FALSE, Append(value, At(raw, decodeOff)))

RECURSIVE sdParamValueLoop(_, _, _, _)
sdParamValueLoop(raw, decodeOff, escaped, value) ==
    IF decodeOff >= Len(raw) THEN Fail
    ELSE IF escaped THEN sdParamValueLoop(raw, decodeOff + 1, FALSE, Append(value, At(raw, decodeOff)))
    ELSE IF At(raw, decodeOff) = QUOTE THEN [off |-> decodeOff, val |-> value]
    ELSE IF At(raw, decodeOff) = BSLASH THEN sdParamValueLoop(raw, decodeOff + 1, TRUE, value)
    ELSE sdParamValueLoop(raw, decodeOff + 1, FALSE, Append(value, At(raw, decodeOff)))

decodeSDParamValue(raw, off) == sdParamValueLoop(raw, off, FALSE, <<>>)

\* the parse state: the offset and the fields decoded so far
ParseStart(off) ==
    [off |-> off, PRI |-> 0, Timestamp |-> ZeroTime, Hostname |-> <<>>, MessageTag |-> <<>>,
     MessageContent |-> <<>>, AppName |-> <<>>, ProcID |-> <<>>, MsgID |-> <<>>, SD |-> <<>>,
     Msg |-> <<>>, Key |-> <<>>, Value |-> <<>>, ID |-> <<>>]

Byte(b) == [kind |-> "byte", arg |-> b]
Field(kind, name) == [kind |-> kind, arg |-> name]

\* the parse state after a decodeX that returned r
setField(p, name, r) == [p EXCEPT !.off = r.off, ![name] = r.val]

RECURSIVE runFields(_, _, _, _)
RECURSIVE decodeSD(_, _)

decodeField(raw, p, f) ==
    CASE f.kind = "byte" -> [p EXCEPT !.off = decodeByte(raw, p.off, f.arg)]
      [] f.kind = "pri" -> setField(p, f.arg, decodePRI(raw, p.off))
      [] f.kind = "stamp" -> setField(p, f.arg, decodeTimestamp(raw, p.off, "Stamp", StampLen))
      [] f.kind = "rfc3339" -> setField(p, f.arg, decodeTimestamp(raw, p.off, "RFC3339Nano", -1))
      [] f.kind = "string" -> setField(p, f.arg, decodeString(raw, p.off))
      [] f.kind = "trailer" -> setField(p, f.arg, decodeTrailer(raw, p.off))
      [] f.kind = "key" -> setField(p, f.arg, decodeSDParamKey(raw, p.off))
      [] f.kind = "value" -> setField(p, f.arg, decodeSDParamValue(raw, p.off))
      [] f.kind = "sd" -> setField(p, f.arg, decodeSD(raw, p.off))

\* the fields in order, up to the first that fails
runFields(raw, p, fields, i) ==
    IF p.off < 0 \/ i > Len(fields) THEN p
    ELSE runFields(raw, decodeField(raw, p, fields[i]), fields, i + 1)

\* decodeSDParam: key="value"
SDParamFields == <<Field("key", "Key"), Byte("="), Byte(QUOTE), Field("value", "Value"), Byte(QUOTE)>>

sdParamOf(p) ==
    IF p.off < 0 THEN Fail ELSE [off |-> p.off, val |-> [Key |-> p.Key, Value |-> p.Value]]

decodeSDParam(raw, off) == sdParamOf(runFields(raw, ParseStart(off), SDParamFields, 1))

RECURSIVE sdElementLoop(_, _, _)

sdElementNext(raw, params, param) ==
    IF param.off < 0 THEN Fail ELSE sdElementLoop(raw, param.off, Append(params, param.val))

\* the parameter loop of decodeSDElement: [off, val] with val the parameters
sdElementLoop(raw, decodeOff, params) ==
    IF decodeOff >= Len(raw) THEN Fail
    ELSE IF At(raw, decodeOff) = "]" THEN [off |-> decodeOff + 1, val |-> params]
    ELSE IF decodeByte(raw, decodeOff, SP) < 0 THEN Fail
    ELSE sdElementNext(raw, params, decodeSDParam(raw, decodeOff + 1))

\* decodeSDElement up to the parameter loop: [id
SDElementFields == <<Byte("["), Field("string", "ID")>>

sdElementOf(id, params) ==
    IF params.off < 0 THEN Fail ELSE [off |-> params.off, val |-> [ID |-> id, Params |-> params.val]]

sdElementParams(raw, p) ==
    IF p.off < 0 THEN Fail ELSE sdElementOf(p.ID, sdElementLoop(raw, p.off, <<>>))

decodeSDElement(raw, off) == sdElementParams(raw, runFields(raw, ParseStart(off), SDElementFields, 1))

RECURSIVE sdLoop(_, _, _)

sdNext(raw, elements, element) ==
    IF element.off < 0 THEN Fail
    ELSE IF element.off >= Len(raw) \/ At(raw, element.off) # "["
    THEN [off |-> element.off, val |-> Append(elements, element.val)]
    ELSE sdLoop(raw, element.off, Append(elements, element.val))

sdLoop(raw, decodeOff, elements) == sdNext(raw, elements, decodeSDElement(raw, decodeOff))

decodeSD(raw, off) ==
    IF off >= Len(raw) THEN Fail
    ELSE IF At(raw, off) = "-" THEN [off |-> off + 1, val |-> <<>>]
    ELSE sdLoop(raw, off, <<>>)

\* decodeRFC3164: TIMESTAMP HOSTNAME TAG CONTENT
RFC3164Fields ==
    <<Field("stamp", "Timestamp"), Byte(SP), Field("string", "Hostname"), Byte(SP),
      Field("string", "MessageTag"), Byte(SP), Field("trailer", "MessageContent")>>

rfc3164Of(raw, facility, priority, p) ==
    IF p.off < 0 THEN UndecodedSyslogMessage(raw)
    ELSE RFC3164SyslogMessage(raw, facility, priority, p.Timestamp, p.Hostname,
                              p.MessageTag, p.MessageContent)

decodeRFC3164(raw, off, facility, priority) ==
    rfc3164Of(raw, facility, priority, runFields(raw, ParseStart(off), RFC3164Fields, 1))

\* decodeRFC5424: 1 TIMESTAMP HOSTNAME APP-NAME PROCID MSGID SD, then the trailer
RFC5424Fields ==
    <<Byte("1"), Byte(SP), Field("rfc3339", "Timestamp"), Byte(SP), Field("string", "Hostname"),
      Byte(SP), Field("string", "AppName"), Byte(SP), Field("string", "ProcID"), Byte(SP),
      Field("string", "MsgID"), Byte(SP), Field("sd", "SD"), Field("trailer", "Msg")>>

\* rfc5424Of with the placeholder - taken for a field that is absent
rfc5424OfAbsent(raw, facility, priority, p) ==
    IF p.off < 0 THEN UndecodedSyslogMessage(raw)
    ELSE RFC5424SyslogMessage(raw, facility, priority, p.Timestamp,
             IF p.Hostname = <<"-">> THEN <<>> ELSE p.Hostname,
             IF p.AppName = <<"-">> THEN <<>> ELSE p.AppName,
             IF p.ProcID = <<"-">> THEN <<>> ELSE p.ProcID,
             IF p.MsgID = <<"-">> THEN <<>> ELSE p.MsgID, p.SD, p.Msg)

rfc5424Of(raw, facility, priority, p) ==
    IF p.off < 0 THEN UndecodedSyslogMessage(raw)
    ELSE RFC5424SyslogMessage(raw, facility, priority, p.Timestamp, p.Hostname,
                              p.AppName, p.ProcID, p.MsgID, p.SD, p.Msg)

decodeRFC5424(raw, off, facility, priority) ==
    rfc5424Of(raw, facility, priority, runFields(raw, ParseStart(off), RFC5424Fields, 1))

MonthLetters == {"J", "F", "M", "A", "S", "O", "N", "D"}

\* decode, lines 55-66: <PRI>
PRIFields == <<Byte("<"), Field("pri", "PRI"), Byte(">")>>

\* decodeGrammar without the case of the version
decodeGrammarByLetter(raw, p) ==
    IF p.off < 0 THEN [panic |-> FALSE, msg |-> UndecodedSyslogMessage(raw)]
    ELSE IF p.off >= Len(raw) THEN [panic |-> TRUE, msg |-> UndecodedSyslogMessage(raw)]
    ELSE IF At(raw, p.off) \in MonthLetters
    THEN [panic |-> FALSE, msg |-> decodeRFC3164(raw, p.off, priFacility(p.PRI), priPriority(p.PRI))]
    ELSE [panic |-> FALSE, msg |-> UndecodedSyslogMessage(raw)]

\* decode, lines 67-76, at the byte after '>': [panic, msg]. m.raw[decodeOff]
\* is not guarded: an index out of range is a run-time panic.
decodeGrammar(raw, p) ==
    IF p.off < 0 THEN [panic |-> FALSE, msg |-> UndecodedSyslogMessage(raw)]
    ELSE IF p.off >= Len(raw) THEN [panic |-> TRUE, msg |-> UndecodedSyslogMessage(raw)]
    ELSE IF At(raw, p.off) \in MonthLetters
    THEN [panic |-> FALSE, msg |-> decodeRFC3164(raw, p.off, priFacility(p.PRI), priPriority(p.PRI))]
    ELSE IF At(raw, p.off) = "1"
    THEN [panic |-> FALSE, msg |-> decodeRFC5424(raw, p.off, priFacility(p.PRI), priPriority(p.PRI))]
    ELSE [panic |-> FALSE, msg |-> UndecodedSyslogMessage(raw)]

decode(raw, off) == decodeGrammar(raw, runFields(raw, ParseStart(off), PRIFields, 1))

----------------------------------------------------------------------------
(* Byte streams and bytes.Buffer. A stream is `junk` copies of JunkByte    *)
(* followed by the bytes of `rest`, so that a long run of non-framing      *)
(* bytes is held as a count.                                               *)

JunkByte == "x"

Stream(j, r) == [junk |-> j, rest |-> r]

EmptyStream == Stream(0, <<>>)

StreamLen(s) == s.junk + Len(s.rest)

RECURSIVE Repeat(_, _)
Repeat(b, n) == IF n <= 0 THEN <<>> ELSE <<b>> \o Repeat(b, n - 1)

\* the bytes of a stream
Bytes(s) == IF s.junk = 0 THEN s.rest ELSE Repeat(JunkByte, s.junk) \o s.rest

Cat(a, b) ==
    IF StreamLen(a) = 0 THEN b
    ELSE IF b.junk = 0 THEN Stream(a.junk, a.rest \o b.rest)
    ELSE Stream(a.junk, a.rest \o Bytes(b))

Take(s, k) ==
    IF k <= s.junk THEN Stream(k, <<>>) ELSE Stream(s.junk, SubSeq(s.rest, 1, k - s.junk))

Drop(s, k) ==
    IF k <= s.junk THEN Stream(s.junk - k, s.rest)
    ELSE Stream(0, SubSeq(s.rest, k - s.junk + 1, Len(s.rest)))

\* bytes.Buffer.ReadByte: [err, byte, buf]
ReadByte(b) ==
    IF b.junk > 0 THEN [err |-> FALSE, byte |-> JunkByte, buf |-> Stream(b.junk - 1, b.rest)]
    ELSE IF b.rest = <<>> THEN [err |-> TRUE, byte |-> "", buf |-> b]
    ELSE [err |-> FALSE, byte |-> Head(b.rest), buf |-> Stream(0, Tail(b.rest))]

\* bytes.Buffer.UnreadByte after a ReadByte that returned `byte`
UnreadByte(b, byte) ==
    IF b.junk > 0 THEN Stream(b.junk + 1, b.rest) ELSE Stream(0, <<byte>> \o b.rest)

\* the positions i >= from with s[i] = delim
hitsOf(s, delim, from) == {i \in from..Len(s) : s[i] = delim}

\* the least i >= from with s[i] = delim, or 0
indexOf(s, delim, from) ==
    IF hitsOf(s, delim, from) = {} THEN 0
    ELSE CHOOSE i \in hitsOf(s, delim, from) : \A j \in hitsOf(s, delim, from) : i <= j

\* bytes.Buffer.ReadBytes(delim): [err, data, buf]; without a delimiter it
\* returns, and consumes, everything that is buffered
readUpTo(all, i) ==
    IF i = 0 THEN [err |-> TRUE, data |-> all, buf |-> EmptyStream]
    ELSE [err |-> FALSE, data |-> SubSeq(all, 1, i), buf |-> Stream(0, SubSeq(all, i + 1, Len(all)))]

ReadBytes(b, delim) == readUpTo(Bytes(b), indexOf(Bytes(b), delim, 1))

\* bytes.Buffer.Next(n): [data, buf]
nextOf(b, k) == [data |-> Bytes(Take(b, k)), buf |-> Drop(b, k)]

BufferNext(b, n) ==
    nextOf(b, IF n < 0 THEN 0 ELSE IF n > StreamLen(b) THEN StreamLen(b) ELSE n)

----------------------------------------------------------------------------
(* SyslogDecoder. The handlers are operators on a decoder record           *)
(* [buffer, state, decoding, octets, octetsRemaining].                     *)

syslogDecodeLimit == 32767

messageBuilderBufferStart == 16

syslogDecodeFraming == "Framing"
syslogDecodeImplicitFraming == "ImplicitFraming"
syslogDecodeImplicitFramingMessage == "ImplicitFramingMessage"
syslogDecodeOctetFramingHeader == "OctetFramingHeader"
syslogDecodeOctetFraming == "OctetFraming"
syslogDecodeOctetFramingMessage == "OctetFramingMessage"
syslogDecodeUnknown == "Unknown"
syslogDecodeUnknownMessage == "UnknownMessage"

\* a zero-value SyslogDecoder
NewDecoder ==
    [buffer |-> EmptyStream, state |-> syslogDecodeFraming, decoding |-> NilMsg,
     octets |-> 0, octetsRemaining |-> 0]

\* Reset with the accumulation buffer left as it is
ResetKeepsBuffer(d) ==
    [d EXCEPT !.state = syslogDecodeFraming, !.decoding = NilMsg,
              !.octets = 0, !.octetsRemaining = 0]

\* SyslogDecoder.Reset
Reset(d) ==
    [d EXCEPT !.buffer = EmptyStream, !.state = syslogDecodeFraming, !.decoding = NilMsg,
              !.octets = 0, !.octetsRemaining = 0]

\* UndecodedSyslogMessage.append
append(m, b) == Msg(m.raw \o b)

\* framingFor with every digit taken for the start of an octet count
framingForAnyDigit(b) ==
    IF b = "<" THEN syslogDecodeImplicitFraming
    ELSE IF b \in Digits THEN syslogDecodeOctetFramingHeader
    ELSE syslogDecodeUnknown

\* the state decodeFraming selects for the next byte
framingFor(b) ==
    IF b = "<" THEN syslogDecodeImplicitFraming
    ELSE IF b \in Digits \ {"0"} THEN syslogDecodeOctetFramingHeader
    ELSE syslogDecodeUnknown

framingRead(d, r) ==
    IF r.err THEN d
    ELSE [d EXCEPT !.buffer = UnreadByte(r.buf, r.byte),
                   !.decoding = Msg(<<>>),
                   !.state = framingFor(r.byte)]

decodeFraming(d) == framingRead(d, ReadByte(d.buffer))

\* implicitFramingRead with the bytes of an unfinished line dropped
implicitFramingReadDropped(d, r) ==
    IF r.err THEN [d EXCEPT !.buffer = r.buf]
    ELSE [d EXCEPT !.buffer = r.buf,
                   !.decoding = append(d.decoding, r.data),
                   !.state = syslogDecodeImplicitFramingMessage]

\* implicitFramingRead with an unfinished line taken for a message
implicitFramingReadEager(d, r) ==
    [d EXCEPT !.buffer = r.buf,
              !.decoding = append(d.decoding, r.data),
              !.state = syslogDecodeImplicitFramingMessage]

implicitFramingRead(d, r) ==
    [d EXCEPT !.buffer = r.buf,
              !.decoding = append(d.decoding, r.data),
              !.state = IF r.err THEN d.state ELSE syslogDecodeImplicitFramingMessage]

decodeImplicitFraming(d) == implicitFramingRead(d, ReadBytes(d.buffer, LF))

RECURSIVE decodeOctetFramingHeader(_)

\* octetHeaderRead without the limit on the declared length
octetHeaderReadNoLimit(d, r) ==
    IF r.err THEN d
    ELSE IF r.byte = SP
    THEN [d EXCEPT !.buffer = r.buf, !.decoding = append(d.decoding, <<r.byte>>),
                   !.octetsRemaining = d.octets, !.state = syslogDecodeOctetFraming]
    ELSE IF r.byte \notin Digits
    THEN [d EXCEPT !.buffer = r.buf, !.decoding = append(d.decoding, <<r.byte>>),
                   !.state = syslogDecodeUnknown]
    ELSE decodeOctetFramingHeader(
             [d EXCEPT !.buffer = r.buf, !.decoding = append(d.decoding, <<r.byte>>),
                       !.octets = 10 * d.octets + DigitVal(r.byte)])

\* one turn of decodeOctetFramingHeader's loop, the byte read
octetHeaderRead(d, r) ==
    IF r.err THEN d
    ELSE IF r.byte = SP
    THEN [d EXCEPT !.buffer = r.buf, !.decoding = append(d.decoding, <<r.byte>>),
                   !.octetsRemaining = d.octets, !.state = syslogDecodeOctetFraming]
    ELSE IF r.byte \notin Digits
    THEN [d EXCEPT !.buffer = r.buf, !.decoding = append(d.decoding, <<r.byte>>),
                   !.state = syslogDecodeUnknown]
    ELSE IF 10 * d.octets + DigitVal(r.byte) > syslogDecodeLimit
    THEN [d EXCEPT !.buffer = r.buf, !.decoding = append(d.decoding, <<r.byte>>),
                   !.octets = 10 * d.octets + DigitVal(r.byte),
                   !.state = syslogDecodeUnknown]
    ELSE decodeOctetFramingHeader(
             [d EXCEPT !.buffer = r.buf, !.decoding = append(d.decoding, <<r.byte>>),
                       !.octets = 10 * d.octets + DigitVal(r.byte)])

decodeOctetFramingHeader(d) == octetHeaderRead(d, ReadByte(d.buffer))

octetFramingRead(d, r) ==
    [d EXCEPT !.buffer = r.buf,
              !.decoding = append(d.decoding, r.data),
              !.octetsRemaining = d.octetsRemaining - Len(r.data),
              !.state = IF d.octetsRemaining - Len(r.data) <= 0
                        THEN syslogDecodeOctetFramingMessage ELSE d.state]

decodeOctetFraming(d) == octetFramingRead(d, BufferNext(d.buffer, d.octetsRemaining))

\* emittedReset with the counters of the emitted frame left as they are
emittedResetStale(d) == [d EXCEPT !.state = syslogDecodeFraming, !.decoding = NilMsg]

\* what decodeMessage and decodeUnknownMessage leave behind
emittedReset(d) ==
    [d EXCEPT !.state = syslogDecodeFraming, !.decoding = NilMsg,
              !.octets = 0, !.octetsRemaining = 0]

\* decodeMessage: [panic, msg, d]; a panic in decode leaves the decoder as it was
decodedMessage(d, decoded) ==
    IF decoded.panic THEN [panic |-> TRUE, msg |-> decoded.msg, d |-> d]
    ELSE [panic |-> FALSE, msg |-> decoded.msg, d |-> emittedReset(d)]

decodeMessage(d, off) == decodedMessage(d, decode(d.decoding.raw, off))

decodeUnknownMessage(d) ==
    [panic |-> FALSE, msg |-> UndecodedSyslogMessage(d.decoding.raw), d |-> emittedReset(d)]

decodeImplicitFramingMessage(d) == decodeMessage(d, 0)

decodeOctetFramingMessage(d) ==
    IF Len(d.decoding.raw) - d.octets < 2 THEN decodeUnknownMessage(d)
    ELSE decodeMessage(d, Len(d.decoding.raw) - d.octets)

\* decodeUnknown, lines 657-661 of one turn of its loop: [err, byte, d]
unknownByteRead(d, r) ==
    IF r.err THEN [err |-> TRUE, byte |-> "", d |-> d]
    ELSE [err |-> FALSE, byte |-> r.byte,
          d |-> [d EXCEPT !.buffer = r.buf, !.decoding = Msg(<<>>)]]

unknownRead(d) == unknownByteRead(d, ReadByte(d.buffer))

\* the bytes decodeUnknown takes for the start of a frame
FrameStart == {"<"} \cup (Digits \ {"0"})

\* decodeUnknown, lines 662-671: the switch on the byte read; the loop goes on
unknownSwitch(d, b) ==
    IF b \in FrameStart
    THEN [d EXCEPT !.buffer = UnreadByte(d.buffer, b), !.state = syslogDecodeFraming]
    ELSE [d EXCEPT !.decoding = append(d.decoding, <<b>>),
                   !.state = IF Len(d.decoding.raw) + 1 > syslogDecodeLimit
                             THEN syslogDecodeUnknownMessage ELSE d.state]

----------------------------------------------------------------------------
(* Decode() and decode(): a machine [d, pc, nextByte, messages] that takes  *)
(* one step per turn of decode's loop, and two per turn of decodeUnknown's. *)

\* decode, lines 558-560: an unchanged state ends decode with nil, and Decode
\* returns its messages
afterHandler(m, d2) ==
    IF d2.state = m.d.state THEN [m EXCEPT !.d = d2, !.pc = "idle"]
    ELSE [m EXCEPT !.d = d2]

\* afterMessage of a Decode that returns after its first message
afterMessageOnce(m, r) ==
    IF r.panic THEN [m EXCEPT !.pc = "panic"]
    ELSE [m EXCEPT !.d = r.d, !.messages = Append(m.messages, r.msg), !.pc = "idle"]

\* a message state returns its message to Decode, which appends it and calls
\* decode again
afterMessage(m, r) ==
    IF r.panic THEN [m EXCEPT !.pc = "panic"]
    ELSE [m EXCEPT !.d = r.d, !.messages = Append(m.messages, r.msg)]

decodeInState(m, st) ==
        CASE st = syslogDecodeFraming -> afterHandler(m, decodeFraming(m.d))
          [] st = syslogDecodeImplicitFraming -> afterHandler(m, decodeImplicitFraming(m.d))
          [] st = syslogDecodeImplicitFramingMessage -> afterMessage(m, decodeImplicitFramingMessage(m.d))
          [] st = syslogDecodeOctetFramingHeader -> afterHandler(m, decodeOctetFramingHeader(m.d))
          [] st = syslogDecodeOctetFraming -> afterHandler(m, decodeOctetFraming(m.d))
          [] st = syslogDecodeOctetFramingMessage -> afterMessage(m, decodeOctetFramingMessage(m.d))
          [] st = syslogDecodeUnknown -> [m EXCEPT !.pc = "unknown_read"]
          [] st = syslogDecodeUnknownMessage -> afterMessage(m, decodeUnknownMessage(m.d))

stepDecode(m) == decodeInState(m, m.d.state)

\* at a read error decodeUnknown returns, and decode compares the state
\* with Unknown, the state it was called in
unknownReadDone(m, r) ==
    IF ~r.err THEN [m EXCEPT !.d = r.d, !.nextByte = r.byte, !.pc = "unknown_switch"]
    ELSE IF m.d.state = syslogDecodeUnknown THEN [m EXCEPT !.pc = "idle", !.nextByte = ""]
    ELSE [m EXCEPT !.pc = "decode", !.nextByte = ""]

stepUnknownRead(m) == unknownReadDone(m, unknownRead(m.d))

stepUnknownSwitch(m) ==
    [m EXCEPT !.d = unknownSwitch(m.d, m.nextByte), !.pc = "unknown_read"]

stepMachine(m) ==
    CASE m.pc = "decode" -> stepDecode(m)
      [] m.pc = "unknown_read" -> stepUnknownRead(m)
      [] m.pc = "unknown_switch" -> stepUnknownSwitch(m)
      [] OTHER -> m

\* Decode() entered
startDecode(m) == [m EXCEPT !.pc = "decode", !.messages = <<>>]

RECURSIVE runDecode(_, _)
\* the machine run until Decode returns or panics; out of fuel is pc = "hang"
runDecode(m, fuel) ==
    IF m.pc \in {"idle", "panic"} THEN m
    ELSE IF fuel = 0 THEN [m EXCEPT !.pc = "hang"]
    ELSE runDecode(stepMachine(m), fuel - 1)

\* more steps than any Decode over n buffered bytes that returns can take
Fuel(n) == 4 * n + 8

\* a fresh decoder fed `bytes` in one Feed, then one Decode
DecodeWhole(bytes) ==
    runDecode(startDecode([d |-> [NewDecoder EXCEPT !.buffer = Stream(0, bytes)],
                           pc |-> "idle", nextByte |-> "", messages |-> <<>>]),
              Fuel(Len(bytes)))

----------------------------------------------------------------------------
(* messageBuilder: the bytes after the reserved frame-header space, and the *)
(* pending conditional text.                                                *)

\* a builder from the pool: empty behind the reserved bytes
getMessageBuilder == [buffer |-> <<>>, conditional |-> <<>>]

AppendConditional(b, s) == [b EXCEPT !.conditional = s]

writeConditional(b) ==
    IF b.conditional # <<>>
    THEN [buffer |-> b.buffer \o b.conditional, conditional |-> <<>>]
    ELSE b

AppendRune(b, r) == [writeConditional(b) EXCEPT !.buffer = @ \o <<r>>]

AppendString(b, s) ==
    IF s # <<>> THEN [writeConditional(b) EXCEPT !.buffer = @ \o s] ELSE b

AppendBytes(b, p) ==
    IF Len(p) > 0 THEN [writeConditional(b) EXCEPT !.buffer = @ \o p] ELSE b

\* CompleteConditional with the conditional text written when nothing followed it
CompleteConditionalWritten(b, yes, no) == AppendString(writeConditional(b), yes)

\* yes if the conditional text was written, else no, and the text is dropped
CompleteConditional(b, yes, no) ==
    IF b.conditional = <<>> THEN AppendString(b, yes)
    ELSE AppendString([b EXCEPT !.conditional = <<>>], no)

\* the frame header fits the reserved bytes with its space
frameHeaderFits(frameHeader) == messageBuilderBufferStart - Len(frameHeader) - 1 >= 0

\* return w.Write(b.buffer[writeStart:]): one call with the whole slice
oneWrite(slice) == [err |-> FALSE, bytes |-> slice, writes |-> <<slice>>]

\* messageBuilderWrite with the reserved bytes counted in the frame header
messageBuilderWriteAll(b, implicit) ==
    IF implicit THEN oneWrite(b.buffer \o <<LF>>)
    ELSE oneWrite(Itoa(Len(b.buffer) + messageBuilderBufferStart) \o <<SP>> \o b.buffer)

\* messageBuilderWrite with the framing and the message written one after
\* the other
messageBuilderWriteSplit(b, implicit) ==
    IF implicit THEN [err |-> FALSE, bytes |-> b.buffer \o <<LF>>, writes |-> <<b.buffer, <<LF>>>>]
    ELSE [err |-> FALSE, bytes |-> Itoa(Len(b.buffer)) \o <<SP>> \o b.buffer,
          writes |-> <<Itoa(Len(b.buffer)) \o <<SP>>, b.buffer>>]

\* messageBuilder.Write: [err, bytes, writes], bytes what is passed to the
\* writer and writes the calls of w.Write that pass it
messageBuilderWrite(b, implicit) ==
    IF implicit THEN oneWrite(b.buffer \o <<LF>>)
    ELSE IF ~frameHeaderFits(Itoa(Len(b.buffer))) THEN [err |-> TRUE, bytes |-> <<>>, writes |-> <<>>]
    ELSE oneWrite(Itoa(Len(b.buffer)) \o <<SP>> \o b.buffer)

----------------------------------------------------------------------------
(* SyslogHandler. A handler is [opts, header, msgID, prerenderdAttrs,       *)
(* groups, encode]; a record is [Level, Time, Message, Attrs] with Attrs a  *)
(* sequence of [Key, Value] of string values. ReplaceAttr is nil.           *)

SyslogKey == <<"s", "y", "s", "l", "o", "g">>

SyslogEncodingDefault == ""
SyslogEncodingRFC3164 == "rfc3164"
SyslogEncodingRFC3164F == "rfc3164+framing"
SyslogEncodingRFC5424 == "rfc5424"
SyslogEncodingRFC5424F == "rfc5424+framing"

defaultSyslogFacility == 16

\* os.Hostname, the application name and os.Getpid of the sending process
syslogHostname == <<"h">>
syslogAppName(optsAppName) == IF optsAppName # <<>> THEN optsAppName ELSE <<"g", "o">>
syslogProcID == <<"7">>

\* slog.Level as a number: a level is named as slog prints it, and Notice is
\* LevelNotice, slog.LevelError + 4
LevelValue(level) ==
    CASE level = "Debug" -> -4
      [] level = "Debug+3" -> -1
      [] level = "Info" -> 0
      [] level = "Info+1" -> 1
      [] level = "Warn" -> 4
      [] level = "Warn+1" -> 5
      [] level = "Error" -> 8
      [] level = "Error+1" -> 9
      [] level = "Notice" -> 12
      [] level = "Error+5" -> 13

\* the severity appendPRI selects, its cases in the order of the switch
severityOf(level) ==
    IF LevelValue(level) = LevelValue("Notice") THEN 5
    ELSE IF LevelValue(level) >= LevelValue("Error") THEN 3
    ELSE IF LevelValue(level) <= LevelValue("Warn") THEN 4
    ELSE IF LevelValue(level) <= LevelValue("Info") THEN 6
    ELSE 7

\* facility << 3 | severity
priOf(facility, severity) == facility * 8 + severity

appendPRI(h, b, level) ==
    AppendRune(AppendString(AppendRune(b, "<"), Itoa(priOf(h.opts.Facility, severityOf(level)))), ">")

appendTime(h, b, t) ==
    IF h.opts.Encoding \in {SyslogEncodingRFC3164, SyslogEncodingRFC3164F}
    THEN AppendString(b, FormatStamp(t))
    ELSE AppendString(b, FormatRFC3339(t))

RECURSIVE msgIDOf(_, _, _)
\* the value of the first attribute with the key "syslog", else the handler's
msgIDOf(attrs, i, msgID) ==
    IF i > Len(attrs) THEN msgID
    ELSE IF attrs[i].Key = SyslogKey THEN attrs[i].Value
    ELSE msgIDOf(attrs, i + 1, msgID)

appendMsgID(h, b, r) == AppendString(b, msgIDOf(r.Attrs, 1, h.msgID))

RECURSIVE quoteBytes(_, _)
quoteBytes(s, i) ==
    IF i > Len(s) THEN <<>>
    ELSE (IF s[i] \in {QUOTE, BSLASH} THEN <<BSLASH, s[i]>>
          ELSE IF s[i] = LF THEN <<BSLASH, "n">>
          ELSE <<s[i]>>) \o quoteBytes(s, i + 1)

\* strconv.Quote of printable ASCII and of the newline
Quote(s) == <<QUOTE>> \o quoteBytes(s, 1) \o <<QUOTE>>

RECURSIVE GroupPath(_)
\* the path of the open groups, each followed by a dot
GroupPath(groups) ==
    IF groups = <<>> THEN <<>> ELSE Head(groups) \o <<".">> \o GroupPath(Tail(groups))

\* appendKeyValue with the key "syslog" rendered as every other key
appendKeyValueAny(h, b, attr) ==
    AppendString(AppendString(AppendString(AppendString(AppendRune(b, SP),
        GroupPath(h.groups)), attr.Key), <<"=">>), Quote(attr.Value))

\* the attribute callback of encodeRFC3164, encodeRFC5424 and WithAttrs
appendKeyValue(h, b, attr) ==
    IF attr.Key # SyslogKey
    THEN AppendString(AppendString(AppendString(AppendString(AppendRune(b, SP),
             GroupPath(h.groups)), attr.Key), <<"=">>), Quote(attr.Value))
    ELSE b

RECURSIVE appendAttrs(_, _, _, _)
\* record.Attrs(builder.Attrs(...))
appendAttrs(h, b, attrs, i) ==
    IF i > Len(attrs) THEN b ELSE appendAttrs(h, appendKeyValue(h, b, attrs[i]), attrs, i + 1)

RECURSIVE appendPrerendered(_, _, _)
appendPrerendered(b, prerendered, i) ==
    IF i > Len(prerendered) THEN b
    ELSE appendPrerendered(AppendBytes(b, prerendered[i]), prerendered, i + 1)

encodeRFC3164(h, b, r) ==
    appendAttrs(h,
        appendPrerendered(
            AppendString(AppendString(appendTime(h, appendPRI(h, b, r.Level), r.Time), h.header),
                         r.Message),
            h.prerenderdAttrs, 1),
        r.Attrs, 1)

encodeRFC5424(h, b, r) ==
    AppendString(
        CompleteConditional(
            appendAttrs(h,
                appendPrerendered(
                    AppendConditional(
                        appendMsgID(h,
                            AppendString(
                                appendTime(h, AppendString(appendPRI(h, b, r.Level), <<"1", SP>>), r.Time),
                                h.header),
                            r),
                        <<SP, "[", "A", "t", "t", "r", "s", "@", "1">>),
                    h.prerenderdAttrs, 1),
                r.Attrs, 1),
            <<"]", SP>>, <<SP, "-", SP>>),
        r.Message)

initHeader(h) ==
    IF h.opts.Encoding \in {SyslogEncodingRFC3164, SyslogEncodingRFC3164F}
    THEN [h EXCEPT !.header = <<SP>> \o syslogHostname \o <<SP>> \o syslogAppName(h.opts.AppName)
                                \o <<"[">> \o syslogProcID \o <<"]", ":", SP>>]
    ELSE [h EXCEPT !.header = <<SP>> \o syslogHostname \o <<SP>> \o syslogAppName(h.opts.AppName)
                                \o <<SP>> \o syslogProcID \o <<SP>>]

initEncoder(h) ==
    IF h.opts.Encoding = SyslogEncodingDefault
    THEN [h EXCEPT !.opts.Encoding = SyslogEncodingRFC5424F, !.encode = "encodeRFC5424"]
    ELSE IF h.opts.Encoding \in {SyslogEncodingRFC3164, SyslogEncodingRFC3164F}
    THEN [h EXCEPT !.encode = "encodeRFC3164"]
    ELSE [h EXCEPT !.encode = "encodeRFC5424"]

\* the facility is checked into a local; the handler keeps the options as given
NewSyslogHandler(opts) ==
    initEncoder(initHeader([opts |-> opts, header |-> <<>>, msgID |-> <<"-">>,
                            prerenderdAttrs |-> <<>>, groups |-> <<>>, encode |-> ""]))

RECURSIVE withAttrsMsgID(_, _, _)
\* msgID of WithAttrs after its loop: the value of the last attribute with the
\* key "syslog"
withAttrsMsgID(attrs, i, msgID) ==
    IF i > Len(attrs) THEN msgID
    ELSE IF attrs[i].Key = SyslogKey THEN withAttrsMsgID(attrs, i + 1, attrs[i].Value)
    ELSE withAttrsMsgID(attrs, i + 1, msgID)

\* SyslogHandler.clone
clone(h) == initEncoder(h)

\* h2 of WithAttrs, with the bytes of the builder and the msgID of the loop
withAttrsClone(h2, bytes, msgID) ==
    [h2 EXCEPT !.prerenderdAttrs = Append(@, bytes),
               !.msgID = IF msgID # <<>> THEN msgID ELSE @]

\* SyslogHandler.WithAttrs
WithAttrs(h, attrs) ==
    IF Len(attrs) = 0 THEN h
    ELSE withAttrsClone(clone(h), appendAttrs(h, getMessageBuilder, attrs, 1).buffer,
                        withAttrsMsgID(attrs, 1, <<>>))

encode(h, b, r) ==
    IF h.encode = "encodeRFC3164" THEN encodeRFC3164(h, b, r) ELSE encodeRFC5424(h, b, r)

implicitFraming(h) ==
    h.opts.Encoding # SyslogEncodingRFC3164F /\ h.opts.Encoding # SyslogEncodingRFC5424F

\* SyslogHandler.Handle: [err, bytes], bytes what the handler's writer gets
Handle(h, r) == messageBuilderWrite(encode(h, getMessageBuilder, r), implicitFraming(h))

----------------------------------------------------------------------------
(* syslogWriter. The writer is [conn, conns]: conn is w.conn (0 is nil),    *)
(* conns the state of every connection dialed so far. A call in progress   *)
(* is [pc, l] with l its locals and what it has done so far.                *)

\* a caller that is in no call yet
NoCall ==
    [op |-> "", dials |-> 0, sends |-> 0, n |-> 0, err |-> FALSE, conn |-> 0, used |-> 0,
     dialFailed |-> FALSE, sendFailed |-> FALSE, unrecognized |-> FALSE,
     b |-> <<>>, written |-> <<>>]

\* Write(b) and Close() entered: the call waits for the mutex
startCall(op) == [pc |-> "lock", l |-> [NoCall EXCEPT !.op = op]]

\* Write(b) entered with the slice b
startWrite(b) == [pc |-> "lock", l |-> [NoCall EXCEPT !.op = "Write", !.b = b]]

\* canLock of a lock that does not exclude
lockAnyway(m) == TRUE

\* w.mutex.Lock() returns when the mutex is free
canLock(m) == m = 0

\* `if w.conn == nil` of Write and of Close
checkConn(w, l) ==
    IF l.op = "Write"
    THEN [w |-> w, l |-> l, pc |-> IF w.conn = 0 THEN "dial" ELSE "send"]
    ELSE [w |-> w, l |-> l, pc |-> IF w.conn = 0 THEN "unlock" ELSE "closeconn"]

\* the networks of the cases of dial's switch
dialNetworks ==
    {"", "udp", "udp4", "udp6", "tcp", "tcp4", "tcp6", "tcp+tls", "tcp4+tls", "tcp6+tls"}

\* Config.GetWriter for TargetSyslog: the writer's network is SyslogNetwork
GetWriter(SyslogNetwork) == SyslogNetwork

\* syslogWriter.dial reaches net.Dial or tls.Dial; else it returns the error
\* "unrecognized syslog network options"
dial(w) == w.network \in dialNetworks

\* dialed with a failed dial tried again within the call
dialedRetry(w, l, ok) ==
    IF ok /\ dial(w)
    THEN [w |-> [w EXCEPT !.conns = Append(@, "open")],
          l |-> [l EXCEPT !.dials = @ + 1, !.conn = Len(w.conns) + 1],
          pc |-> "assign"]
    ELSE [w |-> w,
          l |-> [l EXCEPT !.dials = @ + 1, !.dialFailed = TRUE, !.n = 0, !.err = TRUE,
                          !.unrecognized = ~dial(w)],
          pc |-> "dial"]

\* conn, err := w.dial(): a failure (an address that does not answer when ok
\* is false, a network that dial does not recognize) returns 0, err from Write
dialed(w, l, ok) ==
    IF ok /\ dial(w)
    THEN [w |-> [w EXCEPT !.conns = Append(@, "open")],
          l |-> [l EXCEPT !.dials = @ + 1, !.conn = Len(w.conns) + 1],
          pc |-> "assign"]
    ELSE [w |-> w,
          l |-> [l EXCEPT !.dials = @ + 1, !.dialFailed = TRUE, !.n = 0, !.err = TRUE,
                          !.unrecognized = ~dial(w)],
          pc |-> "unlock"]

\* w.conn = conn
assignConn(w, l) == [w |-> [w EXCEPT !.conn = l.conn], l |-> l, pc |-> "send"]

\* written, err := w.conn.Write(b); a nil w.conn is a nil dereference, and a
\* closed connection does not send; written is what w.conn.Write was given
sent(w, l, ok) ==
    IF w.conn = 0 THEN [w |-> w, l |-> l, pc |-> "panic"]
    ELSE IF ok /\ w.conns[w.conn] = "open"
    THEN [w |-> w,
          l |-> [l EXCEPT !.sends = @ + 1, !.used = w.conn, !.n = 1, !.err = FALSE,
                          !.written = Append(@, l.b)],
          pc |-> "unlock"]
    ELSE [w |-> w,
          l |-> [l EXCEPT !.sends = @ + 1, !.used = w.conn, !.n = 0, !.err = TRUE,
                          !.sendFailed = TRUE, !.written = Append(@, l.b)],
          pc |-> "closeconn"]

\* w.conn.Close()
closeConn(w, l) ==
    IF w.conn = 0 THEN [w |-> w, l |-> l, pc |-> "panic"]
    ELSE [w |-> [w EXCEPT !.conns[w.conn] = "closed"], l |-> l, pc |-> "clear"]

\* clearConn with the closed connection kept in w.conn
clearConnKept(w, l) == [w |-> w, l |-> l, pc |-> "unlock"]

\* w.conn = nil
clearConn(w, l) == [w |-> [w EXCEPT !.conn = 0], l |-> l, pc |-> "unlock"]

\* the positions of a call between Lock and the deferred Unlock
Critical == {"check", "dial", "assign", "send", "closeconn", "clear", "unlock"}

----------------------------------------------------------------------------
(* The decoder's actions. *)

D == [buffer |-> buffer, state |-> state, decoding |-> decoding,
      octets |-> octets, octetsRemaining |-> octetsRemaining]

M == [d |-> D, pc |-> pc, nextByte |-> nextByte, messages |-> messages]

\* the machine's next state; a Decode that returns hands its messages over
InstallMachine(m) ==
    /\ buffer' = m.d.buffer
    /\ state' = m.d.state
    /\ decoding' = m.d.decoding
    /\ octets' = m.d.octets
    /\ octetsRemaining' = m.d.octetsRemaining
    /\ pc' = m.pc
    /\ nextByte' = m.nextByte
    /\ messages' = m.messages
    /\ emitted' = IF m.pc = "idle" /\ pc # "idle" THEN emitted \o m.messages ELSE emitted

\* SyslogDecoder.Feed with the next k bytes of the input
Feed(k) ==
    /\ pc = "idle"
    /\ k \in 1..StreamLen(pending)
    /\ buffer' = Cat(buffer, Take(pending, k))
    /\ pending' = Drop(pending, k)
    /\ fed' = Cat(fed, Take(pending, k))
    /\ UNCHANGED <<state, decoding, octets, octetsRemaining, pc, nextByte, messages>>
    /\ UNCHANGED <<emitted, decodedUpTo>>
    /\ UNCHANGED <<senderVars, writerVars, otherVars>>

FeedSome == \E k \in 1..StreamLen(pending) : Feed(k)

FeedAll == Feed(StreamLen(pending))

\* Feed with the next byte alone
FeedByte == Feed(1)

\* SyslogDecoder.Decode is called
Decode ==
    /\ pc = "idle"
    /\ InstallMachine(startDecode(M))
    /\ decodedUpTo' = StreamLen(fed)
    /\ UNCHANGED <<pending, fed>>
    /\ UNCHANGED <<senderVars, writerVars, otherVars>>

\* SyslogDecoder.Reset is called; fed, emitted and decodedUpTo, which record
\* what the decoder was given and what it returned, start again with it
ResetDecoder ==
    /\ pc = "idle"
    /\ buffer' = Reset(D).buffer
    /\ state' = Reset(D).state
    /\ decoding' = Reset(D).decoding
    /\ octets' = Reset(D).octets
    /\ octetsRemaining' = Reset(D).octetsRemaining
    /\ fed' = EmptyStream
    /\ emitted' = <<>>
    /\ decodedUpTo' = 0
    /\ UNCHANGED <<pc, nextByte, messages, pending>>
    /\ UNCHANGED <<senderVars, writerVars, otherVars>>

\* one turn of decode's loop in decoder state st
Step(st) ==
    /\ pc = "decode"
    /\ state = st
    /\ InstallMachine(stepMachine(M))
    /\ UNCHANGED <<pending, fed, decodedUpTo>>
    /\ UNCHANGED <<senderVars, writerVars, otherVars>>

StepFraming == Step(syslogDecodeFraming)
StepImplicitFraming == Step(syslogDecodeImplicitFraming)
StepImplicitFramingMessage == Step(syslogDecodeImplicitFramingMessage)
StepOctetFramingHeader == Step(syslogDecodeOctetFramingHeader)
StepOctetFraming == Step(syslogDecodeOctetFraming)
StepOctetFramingMessage == Step(syslogDecodeOctetFramingMessage)
StepUnknown == Step(syslogDecodeUnknown)
StepUnknownMessage == Step(syslogDecodeUnknownMessage)

\* decodeUnknown's loop: the read, then the switch
UnknownRead ==
    /\ pc = "unknown_read"
    /\ InstallMachine(stepMachine(M))
    /\ UNCHANGED <<pending, fed, decodedUpTo>>
    /\ UNCHANGED <<senderVars, writerVars, otherVars>>

UnknownSwitch ==
    /\ pc = "unknown_switch"
    /\ InstallMachine(stepMachine(M))
    /\ UNCHANGED <<pending, fed, decodedUpTo>>
    /\ UNCHANGED <<senderVars, writerVars, otherVars>>

\* every step of a Decode call in progress
DecodeStep ==
    \/ StepFraming
    \/ StepImplicitFraming
    \/ StepImplicitFramingMessage
    \/ StepOctetFramingHeader
    \/ StepOctetFraming
    \/ StepOctetFramingMessage
    \/ StepUnknown
    \/ StepUnknownMessage
    \/ UnknownRead
    \/ UnknownSwitch

----------------------------------------------------------------------------
(* The sender's action. *)

\* the handler handles record r; what it writes is the input of the decoder
HandleRecord(r) ==
    /\ pc = "idle"
    /\ wire = <<>>
    /\ StreamLen(fed) = 0
    /\ ~Handle(handler, r).err
    /\ record' = r
    /\ wire' = Handle(handler, r).bytes
    /\ sink' = Handle(handler, r).writes
    /\ pending' = Stream(0, Handle(handler, r).bytes)
    /\ UNCHANGED <<handler, fed, emitted, decodedUpTo>>
    /\ UNCHANGED <<decoderVars, writerVars, otherVars>>

\* no record handled yet
NoRecord == [Level |-> "", Time |-> ZeroTime, Message |-> <<>>, Attrs |-> <<>>]

\* WithAttrs is called on the handler, and the handler it returns is used: it
\* has handled no record yet
CallWithAttrs(attrs) ==
    /\ Len(handler.prerenderdAttrs) < MaxWithAttrs
    /\ handler' = WithAttrs(handler, attrs)
    /\ record' = NoRecord
    /\ wire' = <<>>
    /\ sink' = <<>>
    /\ UNCHANGED <<pending, fed, emitted, decodedUpTo>>
    /\ UNCHANGED <<decoderVars, writerVars, otherVars>>

\* Handle is called with record r; wire is what the handler's writer gets
CallHandle(r) ==
    /\ ~Handle(handler, r).err
    /\ record' = r
    /\ wire' = Handle(handler, r).bytes
    /\ sink' = Handle(handler, r).writes
    /\ UNCHANGED <<handler, pending, fed, emitted, decodedUpTo>>
    /\ UNCHANGED <<decoderVars, writerVars, otherVars>>

----------------------------------------------------------------------------
(* The writer's actions, one per step of a caller c in Write or Close.     *)

Callers == {1, 2}

W == [conn |-> conn, conns |-> conns, network |-> network]

\* the step of caller c that leads to r = [w, l, pc]
InstallCall(c, r) ==
    /\ conn' = r.w.conn
    /\ conns' = r.w.conns
    /\ wlocal' = [wlocal EXCEPT ![c] = r.l]
    /\ wpc' = [wpc EXCEPT ![c] = r.pc]
    /\ UNCHANGED <<network, mutex, wcalls, otherVars>>
    /\ UNCHANGED <<decoderVars, envVars, senderVars>>

Call(c, op) ==
    /\ wpc[c] = "idle"
    /\ wcalls < MaxCalls
    /\ wcalls' = wcalls + 1
    /\ wpc' = [wpc EXCEPT ![c] = startCall(op).pc]
    /\ wlocal' = [wlocal EXCEPT ![c] = startCall(op).l]
    /\ UNCHANGED <<network, conn, conns, mutex, otherVars>>
    /\ UNCHANGED <<decoderVars, envVars, senderVars>>

CallWrite(c) == Call(c, "Write")

CallClose(c) == Call(c, "Close")

\* caller c calls Handle with record r on the handler whose sink is the
\* writer: the builder's one w.Write(b.buffer[writeStart:]) enters Write
HandleTo(c, r) ==
    /\ wpc[c] = "idle"
    /\ wcalls < MaxCalls
    /\ ~Handle(handler, r).err
    /\ record' = r
    /\ wire' = Handle(handler, r).bytes
    /\ sink' = Handle(handler, r).writes
    /\ wcalls' = wcalls + 1
    /\ wpc' = [wpc EXCEPT ![c] = startWrite(Handle(handler, r).writes[1]).pc]
    /\ wlocal' = [wlocal EXCEPT ![c] = startWrite(Handle(handler, r).writes[1]).l]
    /\ UNCHANGED <<handler, network, conn, conns, mutex, otherVars>>
    /\ UNCHANGED <<decoderVars, envVars>>

Lock(c) ==
    /\ wpc[c] = "lock"
    /\ canLock(mutex)
    /\ mutex' = c
    /\ wpc' = [wpc EXCEPT ![c] = "check"]
    /\ UNCHANGED <<network, conn, conns, wlocal, wcalls, otherVars>>
    /\ UNCHANGED <<decoderVars, envVars, senderVars>>

CheckConn(c) ==
    /\ wpc[c] = "check"
    /\ InstallCall(c, checkConn(W, wlocal[c]))

Dial(c) ==
    /\ wpc[c] = "dial"
    /\ \E ok \in BOOLEAN :
          /\ ok => Len(conns) < MaxDials
          /\ InstallCall(c, dialed(W, wlocal[c], ok))

AssignConn(c) ==
    /\ wpc[c] = "assign"
    /\ InstallCall(c, assignConn(W, wlocal[c]))

Send(c) ==
    /\ wpc[c] = "send"
    /\ \E ok \in BOOLEAN : InstallCall(c, sent(W, wlocal[c], ok))

CloseConn(c) ==
    /\ wpc[c] = "closeconn"
    /\ InstallCall(c, closeConn(W, wlocal[c]))

ClearConn(c) ==
    /\ wpc[c] = "clear"
    /\ InstallCall(c, clearConn(W, wlocal[c]))

\* the deferred w.mutex.Unlock(), and the return
Unlock(c) ==
    /\ wpc[c] = "unlock"
    /\ mutex' = 0
    /\ wpc' = [wpc EXCEPT ![c] = "idle"]
    /\ UNCHANGED <<network, conn, conns, wlocal, wcalls, otherVars>>
    /\ UNCHANGED <<decoderVars, envVars, senderVars>>

----------------------------------------------------------------------------
(* Input streams of the decoder specification. *)

Alphabet == {"<", "1", "0", SP, LF, JunkByte}

PRI34 == <<"<", "3", "4", ">">>

\* <34>Oct 11 22:14:15 h t m\n
Frame3164 == PRI34 \o FormatStamp([year |-> 2003, sec |-> 5, nsec |-> 0]) \o <<SP, "h", SP, "t", SP, "m", LF>>

\* <34>1 2003-10-11T22:14:15Z h a p i - m\n
Frame5424 ==
    PRI34 \o <<"1", SP>> \o FormatRFC3339([year |-> 2003, sec |-> 5, nsec |-> 0])
          \o <<SP, "h", SP, "a", SP, "p", SP, "i", SP, "-", SP, "m", LF>>

\* RFC6587 octet counting of a payload
OctetFrame(payload) == Itoa(Len(payload)) \o <<SP>> \o payload

WithoutLF(frame) == SubSeq(frame, 1, Len(frame) - 1)

SampleStreams ==
    { Frame3164 \o Frame5424,
      OctetFrame(WithoutLF(Frame5424)) \o OctetFrame(WithoutLF(Frame3164)),
      OctetFrame(WithoutLF(Frame3164)) \o Frame3164,
      OctetFrame(PRI34) \o Frame3164,
      OctetFrame(<<"a", "b", "c">>) \o Frame3164,
      PRI34 \o <<"1", SP, "z", LF>> \o Frame3164,
      <<"3", "2", "7", "6", "8", SP>>,
      <<JunkByte, JunkByte>> \o Frame3164 }

DecoderStreams == SeqsUpTo(Alphabet, MaxStream) \cup SampleStreams

----------------------------------------------------------------------------
(* Initial states. *)

DecoderInit ==
    /\ buffer = EmptyStream
    /\ state = syslogDecodeFraming
    /\ decoding = NilMsg
    /\ octets = 0
    /\ octetsRemaining = 0
    /\ pc = "idle"
    /\ nextByte = ""
    /\ messages = <<>>
    /\ fed = EmptyStream
    /\ emitted = <<>>
    /\ decodedUpTo = 0

SenderInit ==
    /\ handler = <<>>
    /\ record = <<>>
    /\ wire = <<>>
    /\ sink = <<>>

\* GetWriter: a writer without a connection, and no call in progress
NoCalls ==
    /\ conn = 0
    /\ mutex = 0
    /\ conns = <<>>
    /\ wpc = [c \in Callers |-> "idle"]
    /\ wlocal = [c \in Callers |-> NoCall]
    /\ wcalls = 0

\* GetWriter with SyslogNetwork not set
WriterInit ==
    /\ network = GetWriter("")
    /\ NoCalls

\* a Go slice of strings: the array it points into (0 for none) and its length
nilSlice == [arr |-> 0, len |-> 0]

\* a zero-value groupStack: both slices nil; mem holds the two arrays the
\* slices can point into, each as long as its capacity
NewGroupStack == [groups |-> nilSlice, path |-> nilSlice, mem |-> <<<<>>, <<>>>>]

BuilderInit ==
    /\ stack = NewGroupStack
    /\ open = <<>>

\* no open file: w.file is nil
NoFile == <<>>

\* &fileWriter{fileName: ..., fileSizeLimit: ...}
NewFileWriter(fileName, fileSizeLimit) ==
    [fileName |-> fileName, fileSizeLimit |-> fileSizeLimit, file |-> NoFile, lastErr |-> ""]

\* no Write called yet: what the last call returned (n, err), and what it did:
\* the slice it was given, the file it appended to, the file error that made
\* it fall back to stderr, and whether it is still looping
NoWrite ==
    [calls |-> 0, n |-> 0, err |-> "", b |-> <<>>, to |-> NoFile, fileErr |-> "", hung |-> FALSE]

\* an empty log directory, and nothing written
EmptyDirectory ==
    /\ files = <<>>
    /\ handles = {}
    /\ stderr = <<>>
    /\ ret = NoWrite

FileInit ==
    /\ fw = NewFileWriter("", 0)
    /\ today = 1
    /\ EmptyDirectory

OtherInit ==
    /\ BuilderInit
    /\ FileInit

----------------------------------------------------------------------------
(* The decoder fed an input stream in chunks of any sizes, with Decode     *)
(* called at any time between the feeds.                                   *)

DecoderSpecInit ==
    /\ DecoderInit
    /\ pending \in {Stream(0, s) : s \in DecoderStreams}
    /\ SenderInit
    /\ WriterInit
    /\ OtherInit

DecoderNext ==
    \/ FeedSome
    \/ Decode
    \/ StepFraming
    \/ StepImplicitFraming
    \/ StepImplicitFramingMessage
    \/ StepOctetFramingHeader
    \/ StepOctetFraming
    \/ StepOctetFramingMessage
    \/ StepUnknown
    \/ StepUnknownMessage
    \/ UnknownRead
    \/ UnknownSwitch

DecoderSpec == DecoderSpecInit /\ [][DecoderNext]_vars

----------------------------------------------------------------------------
(* The decoder fed one long line: a '<' followed by more bytes than the    *)
(* decode limit, with or without the newline that ends it.                 *)

\* a line of n bytes that starts a message and has no newline
Line(n) == [i \in 1..n |-> IF i = 1 THEN "<" ELSE "a"]

LongLines ==
    {Line(syslogDecodeLimit + k) : k \in {5, 7, 9}}
        \cup {Line(syslogDecodeLimit + k) \o <<LF>> : k \in {5, 7, 9}}

ChunkSizes == {8192, 16384}

LongLineInit ==
    /\ DecoderInit
    /\ SenderInit
    /\ WriterInit
    /\ OtherInit
    /\ pending \in {Stream(0, l) : l \in LongLines}

FeedChunk == \E k \in ChunkSizes \cup {StreamLen(pending)} : Feed(k)

LongLineNext ==
    \/ FeedChunk
    \/ Decode
    \/ StepFraming
    \/ StepImplicitFraming
    \/ StepImplicitFramingMessage

LongLineSpec == LongLineInit /\ [][LongLineNext]_vars

\* the decoder with Reset called between Decode calls
ResetNext ==
    \/ DecoderNext
    \/ ResetDecoder

ResetSpec == DecoderSpecInit /\ [][ResetNext]_vars

\* the streams of the termination specification: every stream over the
\* alphabet that is shorter than MaxStream
TerminationStreams == SeqsUpTo(Alphabet, MaxStream - 1)

TerminationInit ==
    /\ DecoderInit
    /\ pending \in {Stream(0, s) : s \in TerminationStreams}
    /\ SenderInit
    /\ WriterInit
    /\ OtherInit

\* Decode runs in the caller's goroutine: a Decode call in progress keeps
\* taking steps
TerminationSpec == TerminationInit /\ [][DecoderNext]_vars /\ WF_vars(DecodeStep)

----------------------------------------------------------------------------
(* Resynchronization: more than syslogDecodeLimit non-framing bytes and    *)
(* one well-formed frame, fed in one Feed and then decoded.                *)

ResyncFrames == {Frame3164, Frame5424}

ResyncInit ==
    /\ DecoderInit
    /\ pending \in {Stream(syslogDecodeLimit + 1, f) : f \in ResyncFrames}
    /\ SenderInit
    /\ WriterInit
    /\ OtherInit

\* Decode is called once the whole stream has been fed
DecodeFed == StreamLen(pending) = 0 /\ Decode

ResyncNext ==
    \/ FeedAll
    \/ DecodeFed
    \/ StepFraming
    \/ StepUnknown
    \/ UnknownRead
    \/ UnknownSwitch

\* the caller feeds and calls Decode, and the call keeps running
ResyncSpec == ResyncInit /\ [][ResyncNext]_vars /\ WF_vars(ResyncNext)

----------------------------------------------------------------------------
(* Encode and decode: a handler of any encoding handles one record, and    *)
(* the bytes it writes are fed to a fresh decoder and decoded.             *)

Encodings ==
    {SyslogEncodingDefault, SyslogEncodingRFC3164, SyslogEncodingRFC3164F,
     SyslogEncodingRFC5424, SyslogEncodingRFC5424F}

Facilities == {0, 16, 23}

HandlerOptions ==
    [Encoding : Encodings, Facility : Facilities, AppName : {<<>>, <<"a">>}]

Levels == {"Debug", "Info", "Notice", "Warn", "Error"}

Times == {[year |-> 2003, sec |-> 5, nsec |-> 0], [year |-> 2024, sec |-> 7, nsec |-> 3000000]}

Messages == {<<"m">>, <<"m", SP, "n">>}

AttrLists ==
    { <<>>,
      <<[Key |-> <<"k">>, Value |-> <<"v">>]>>,
      <<[Key |-> SyslogKey, Value |-> <<"i">>], [Key |-> <<"k">>, Value |-> <<"a", QUOTE, "b">>]>> }

Records == [Level : Levels, Time : Times, Message : Messages, Attrs : AttrLists]

CodecInit ==
    /\ DecoderInit
    /\ pending = EmptyStream
    /\ handler \in {NewSyslogHandler(o) : o \in HandlerOptions}
    /\ record = NoRecord
    /\ wire = <<>>
    /\ sink = <<>>
    /\ WriterInit
    /\ OtherInit

HandleSome == \E r \in Records : HandleRecord(r)

CodecNext ==
    \/ HandleSome
    \/ FeedAll
    \/ DecodeFed
    \/ StepFraming
    \/ StepImplicitFraming
    \/ StepImplicitFramingMessage
    \/ StepOctetFramingHeader
    \/ StepOctetFraming
    \/ StepOctetFramingMessage

CodecSpec == CodecInit /\ [][CodecNext]_vars

----------------------------------------------------------------------------
(* A handler made with any options, handlers derived from it with          *)
(* WithAttrs, and the records they handle.                                  *)

AnyFacilities == {-1, 16, 24}

AnyHandlerOptions == [Encoding : Encodings, Facility : AnyFacilities, AppName : {<<>>}]

WithAttrLists ==
    { <<>>,
      <<[Key |-> <<"k">>, Value |-> <<"v">>]>>,
      <<[Key |-> SyslogKey, Value |-> <<"j">>]>>,
      <<[Key |-> <<"w">>, Value |-> <<"a", QUOTE, "b">>], [Key |-> SyslogKey, Value |-> <<"i">>]>> }

HandlerRecords ==
    [Level : Levels, Time : {[year |-> 2003, sec |-> 5, nsec |-> 0]}, Message : {<<"m">>},
     Attrs : WithAttrLists]

HandlerInit ==
    /\ DecoderInit
    /\ pending = EmptyStream
    /\ handler \in {NewSyslogHandler(o) : o \in AnyHandlerOptions}
    /\ record = NoRecord
    /\ wire = <<>>
    /\ sink = <<>>
    /\ WriterInit
    /\ OtherInit

WithAttrsSome == \E attrs \in WithAttrLists : CallWithAttrs(attrs)

HandleAny == \E r \in HandlerRecords : CallHandle(r)

HandlerNext ==
    \/ WithAttrsSome
    \/ HandleAny

HandlerSpec == HandlerInit /\ [][HandlerNext]_vars

----------------------------------------------------------------------------
(* Handlers made with the default encoding and with an encoding that is    *)
(* none of the SyslogEncoding constants.                                    *)

UnrecognizedEncoding == "rfc5424+tls"

FallbackOptions ==
    [Encoding : {SyslogEncodingDefault, UnrecognizedEncoding}, Facility : Facilities,
     AppName : {<<>>, <<"a">>}]

FallbackInit ==
    /\ DecoderInit
    /\ pending = EmptyStream
    /\ handler \in {NewSyslogHandler(o) : o \in FallbackOptions}
    /\ record = NoRecord
    /\ wire = <<>>
    /\ sink = <<>>
    /\ WriterInit
    /\ OtherInit

FallbackSpec == FallbackInit /\ [][HandlerNext]_vars

----------------------------------------------------------------------------
(* Records of any level, with and without a newline in their message and   *)
(* in the values of their attributes.                                       *)

AnyLevels ==
    {"Debug", "Debug+3", "Info", "Info+1", "Warn", "Warn+1", "Error", "Error+1", "Notice", "Error+5"}

NewlineAttrLists == {<<>>, <<[Key |-> <<"k">>, Value |-> <<"v", LF, "w">>]>>}

AnyRecords ==
    [Level : AnyLevels, Time : {[year |-> 2003, sec |-> 5, nsec |-> 0]},
     Message : {<<"m">>, <<"m", LF, "n">>}, Attrs : NewlineAttrLists]

RecordInit ==
    /\ DecoderInit
    /\ pending = EmptyStream
    /\ handler \in {NewSyslogHandler(o) :
                       o \in [Encoding : Encodings, Facility : {defaultSyslogFacility}, AppName : {<<>>}]}
    /\ record = NoRecord
    /\ wire = <<>>
    /\ sink = <<>>
    /\ WriterInit
    /\ OtherInit

WithAttrsNewline == \E attrs \in NewlineAttrLists : CallWithAttrs(attrs)

HandleAnyRecord == \E r \in AnyRecords : CallHandle(r)

RecordNext ==
    \/ WithAttrsNewline
    \/ HandleAnyRecord

RecordSpec == RecordInit /\ [][RecordNext]_vars

----------------------------------------------------------------------------
(* Concurrent callers of Write and Close on one syslogWriter.              *)

WriterSpecInit ==
    /\ DecoderInit
    /\ pending = EmptyStream
    /\ SenderInit
    /\ WriterInit
    /\ OtherInit

WriterNext ==
    \E c \in Callers :
        \/ CallWrite(c)
        \/ CallClose(c)
        \/ Lock(c)
        \/ CheckConn(c)
        \/ Dial(c)
        \/ AssignConn(c)
        \/ Send(c)
        \/ CloseConn(c)
        \/ ClearConn(c)
        \/ Unlock(c)

WriterSpec == WriterSpecInit /\ [][WriterNext]_vars

\* the values of SyslogNetwork: not set, three of the networks of dial, and
\* a network that is none of them
SyslogNetworks == {"", "udp", "tcp+tls", "unix"}

NetworkInit ==
    /\ DecoderInit
    /\ pending = EmptyStream
    /\ SenderInit
    /\ network \in {GetWriter(n) : n \in SyslogNetworks}
    /\ NoCalls
    /\ OtherInit

NetworkSpec == NetworkInit /\ [][WriterNext]_vars

----------------------------------------------------------------------------
(* A handler whose sink is the writer: every Write of the writer is the    *)
(* one that Handle makes for a record.                                      *)

WireOptions ==
    [Encoding : {SyslogEncodingRFC3164, SyslogEncodingRFC5424F}, Facility : {defaultSyslogFacility},
     AppName : {<<>>}]

WireRecords ==
    [Level : {"Info"}, Time : {[year |-> 2003, sec |-> 5, nsec |-> 0]}, Message : {<<"m">>},
     Attrs : {<<>>, <<[Key |-> <<"k">>, Value |-> <<"v">>]>>}]

WireInit ==
    /\ DecoderInit
    /\ pending = EmptyStream
    /\ handler \in {NewSyslogHandler(o) : o \in WireOptions}
    /\ record = NoRecord
    /\ wire = <<>>
    /\ sink = <<>>
    /\ WriterInit
    /\ OtherInit

HandleToWriter(c) == \E r \in WireRecords : HandleTo(c, r)

WireNext ==
    \E c \in Callers :
        \/ HandleToWriter(c)
        \/ CallClose(c)
        \/ Lock(c)
        \/ CheckConn(c)
        \/ Dial(c)
        \/ AssignConn(c)
        \/ Send(c)
        \/ CloseConn(c)
        \/ ClearConn(c)
        \/ Unlock(c)

WireSpec == WireInit /\ [][WireNext]_vars

----------------------------------------------------------------------------
(* Streams of well-formed frames, of both grammars and both framings, fed  *)
(* byte by byte with Decode called at any time: a chunk of several bytes   *)
(* is several of these feeds without a Decode in between.                  *)

WellFormedFrames ==
    {Frame3164, Frame5424, OctetFrame(WithoutLF(Frame3164)), OctetFrame(WithoutLF(Frame5424))}

FrameSeqs == SeqsUpTo(WellFormedFrames, MaxFrames) \ {<<>>}

RECURSIVE Flatten(_)
\* the bytes of a sequence of frames
Flatten(fs) == IF fs = <<>> THEN <<>> ELSE Head(fs) \o Flatten(Tail(fs))

FramesInit ==
    /\ DecoderInit
    /\ pending \in {Stream(0, Flatten(fs)) : fs \in FrameSeqs}
    /\ SenderInit
    /\ WriterInit
    /\ OtherInit

FramesNext ==
    \/ FeedByte
    \/ Decode
    \/ StepFraming
    \/ StepImplicitFraming
    \/ StepImplicitFramingMessage
    \/ StepOctetFramingHeader
    \/ StepOctetFraming
    \/ StepOctetFramingMessage

FramesSpec == FramesInit /\ [][FramesNext]_vars

----------------------------------------------------------------------------
(* Frames of the two grammars, well-formed and malformed in one place, each *)
(* framed by a newline, by an octet count, and by an octet count with the   *)
(* newline as the last byte of the payload; fed in one Feed and decoded.    *)

\* `<34>Oct 11 22:14:15 h t m'
G3164_1 ==
    <<"<", "3", "4", ">", "O", "c", "t", SP, "1", "1", SP, "2", "2", ":", "1", "4", ":", "1",
      "5", SP, "h", SP, "t", SP, "m">>

\* `<0>Oct 11 22:14:15 h t m'
G3164_2 ==
    <<"<", "0", ">", "O", "c", "t", SP, "1", "1", SP, "2", "2", ":", "1", "4", ":", "1", "5",
      SP, "h", SP, "t", SP, "m">>

\* `<191>Oct 11 22:14:15 host tag: m n'
G3164_3 ==
    <<"<", "1", "9", "1", ">", "O", "c", "t", SP, "1", "1", SP, "2", "2", ":", "1", "4", ":",
      "1", "5", SP, "h", "o", "s", "t", SP, "t", "a", "g", ":", SP, "m", SP, "n">>

\* `<999>Oct 11 22:14:15 h t m'
G3164_4 ==
    <<"<", "9", "9", "9", ">", "O", "c", "t", SP, "1", "1", SP, "2", "2", ":", "1", "4", ":",
      "1", "5", SP, "h", SP, "t", SP, "m">>

\* `<34>Oct 11 22:14:15 h t '
G3164_5 ==
    <<"<", "3", "4", ">", "O", "c", "t", SP, "1", "1", SP, "2", "2", ":", "1", "4", ":", "1",
      "5", SP, "h", SP, "t", SP>>

\* `<34>Oct 11 22:14:15h t m'
G3164_6 ==
    <<"<", "3", "4", ">", "O", "c", "t", SP, "1", "1", SP, "2", "2", ":", "1", "4", ":", "1",
      "5", "h", SP, "t", SP, "m">>

\* `<34>Oct 11 22:14:15 h'
G3164_7 ==
    <<"<", "3", "4", ">", "O", "c", "t", SP, "1", "1", SP, "2", "2", ":", "1", "4", ":", "1",
      "5", SP, "h">>

\* `<34>Oct 11 22:14:15 h t'
G3164_8 ==
    <<"<", "3", "4", ">", "O", "c", "t", SP, "1", "1", SP, "2", "2", ":", "1", "4", ":", "1",
      "5", SP, "h", SP, "t">>

\* `<34>Oct 11 22:14:1x h t m'
G3164_9 ==
    <<"<", "3", "4", ">", "O", "c", "t", SP, "1", "1", SP, "2", "2", ":", "1", "4", ":", "1",
      "x", SP, "h", SP, "t", SP, "m">>

\* `<34>h t m'
G3164_10 ==
    <<"<", "3", "4", ">", "h", SP, "t", SP, "m">>

\* `<34>Sct 11 22:14:15 h t m'
G3164_11 ==
    <<"<", "3", "4", ">", "S", "c", "t", SP, "1", "1", SP, "2", "2", ":", "1", "4", ":", "1",
      "5", SP, "h", SP, "t", SP, "m">>

\* `<34>J'
G3164_12 ==
    <<"<", "3", "4", ">", "J">>

\* `<>Oct 11 22:14:15 h t m'
G3164_13 ==
    <<"<", ">", "O", "c", "t", SP, "1", "1", SP, "2", "2", ":", "1", "4", ":", "1", "5", SP,
      "h", SP, "t", SP, "m">>

\* `<34Oct 11 22:14:15 h t m'
G3164_14 ==
    <<"<", "3", "4", "O", "c", "t", SP, "1", "1", SP, "2", "2", ":", "1", "4", ":", "1", "5",
      SP, "h", SP, "t", SP, "m">>

\* `<3a4>Oct 11 22:14:15 h t m'
G3164_15 ==
    <<"<", "3", "a", "4", ">", "O", "c", "t", SP, "1", "1", SP, "2", "2", ":", "1", "4", ":",
      "1", "5", SP, "h", SP, "t", SP, "m">>

\* `<34>2 2003-10-11T22:14:15Z h a p i - m'
G3164_16 ==
    <<"<", "3", "4", ">", "2", SP, "2", "0", "0", "3", "-", "1", "0", "-", "1", "1", "T", "2",
      "2", ":", "1", "4", ":", "1", "5", "Z", SP, "h", SP, "a", SP, "p", SP, "i", SP, "-", SP,
      "m">>

\* `<34> Oct 11 22:14:15 h t m'
G3164_17 ==
    <<"<", "3", "4", ">", SP, "O", "c", "t", SP, "1", "1", SP, "2", "2", ":", "1", "4", ":",
      "1", "5", SP, "h", SP, "t", SP, "m">>

\* `<34>1 2003-10-11T22:14:15Z h a p i - m'
G5424_1 ==
    <<"<", "3", "4", ">", "1", SP, "2", "0", "0", "3", "-", "1", "0", "-", "1", "1", "T", "2",
      "2", ":", "1", "4", ":", "1", "5", "Z", SP, "h", SP, "a", SP, "p", SP, "i", SP, "-", SP,
      "m">>

\* `<165>1 2003-10-11T22:14:15.003Z host app - - - m n'
G5424_2 ==
    <<"<", "1", "6", "5", ">", "1", SP, "2", "0", "0", "3", "-", "1", "0", "-", "1", "1", "T",
      "2", "2", ":", "1", "4", ":", "1", "5", ".", "0", "0", "3", "Z", SP, "h", "o", "s", "t",
      SP, "a", "p", "p", SP, "-", SP, "-", SP, "-", SP, "m", SP, "n">>

\* `<34>1 2003-10-11T22:14:15Z - - - - - m'
G5424_3 ==
    <<"<", "3", "4", ">", "1", SP, "2", "0", "0", "3", "-", "1", "0", "-", "1", "1", "T", "2",
      "2", ":", "1", "4", ":", "1", "5", "Z", SP, "-", SP, "-", SP, "-", SP, "-", SP, "-", SP,
      "m">>

\* `<34>1 2003-10-11T22:14:15Z h a p i [e k="v"] m'
G5424_4 ==
    <<"<", "3", "4", ">", "1", SP, "2", "0", "0", "3", "-", "1", "0", "-", "1", "1", "T", "2",
      "2", ":", "1", "4", ":", "1", "5", "Z", SP, "h", SP, "a", SP, "p", SP, "i", SP, "[", "e",
      SP, "k", "=", QUOTE, "v", QUOTE, "]", SP, "m">>

\* `<34>1 2003-10-11T22:14:15Z h a p i [e k="v" l="w"][f@1 k="x"] m'
G5424_5 ==
    <<"<", "3", "4", ">", "1", SP, "2", "0", "0", "3", "-", "1", "0", "-", "1", "1", "T", "2",
      "2", ":", "1", "4", ":", "1", "5", "Z", SP, "h", SP, "a", SP, "p", SP, "i", SP, "[", "e",
      SP, "k", "=", QUOTE, "v", QUOTE, SP, "l", "=", QUOTE, "w", QUOTE, "]", "[", "f", "@",
      "1", SP, "k", "=", QUOTE, "x", QUOTE, "]", SP, "m">>

\* `<34>1 2003-10-11T22:14:15Z h a p i [e k="a\"b" l="c\\"] m'
G5424_6 ==
    <<"<", "3", "4", ">", "1", SP, "2", "0", "0", "3", "-", "1", "0", "-", "1", "1", "T", "2",
      "2", ":", "1", "4", ":", "1", "5", "Z", SP, "h", SP, "a", SP, "p", SP, "i", SP, "[", "e",
      SP, "k", "=", QUOTE, "a", BSLASH, QUOTE, "b", QUOTE, SP, "l", "=", QUOTE, "c", BSLASH,
      BSLASH, QUOTE, "]", SP, "m">>

\* `<34>1 2003-10-11T22:14:15Z h a p i [e k="v"]'
G5424_7 ==
    <<"<", "3", "4", ">", "1", SP, "2", "0", "0", "3", "-", "1", "0", "-", "1", "1", "T", "2",
      "2", ":", "1", "4", ":", "1", "5", "Z", SP, "h", SP, "a", SP, "p", SP, "i", SP, "[", "e",
      SP, "k", "=", QUOTE, "v", QUOTE, "]">>

\* `<34>1 2003-10-11T22:14:15Z h a p i [e] m'
G5424_8 ==
    <<"<", "3", "4", ">", "1", SP, "2", "0", "0", "3", "-", "1", "0", "-", "1", "1", "T", "2",
      "2", ":", "1", "4", ":", "1", "5", "Z", SP, "h", SP, "a", SP, "p", SP, "i", SP, "[", "e",
      "]", SP, "m">>

\* `<34>1 2003-10-11T22:14:15Z h a p i [e k="v" m'
G5424_9 ==
    <<"<", "3", "4", ">", "1", SP, "2", "0", "0", "3", "-", "1", "0", "-", "1", "1", "T", "2",
      "2", ":", "1", "4", ":", "1", "5", "Z", SP, "h", SP, "a", SP, "p", SP, "i", SP, "[", "e",
      SP, "k", "=", QUOTE, "v", QUOTE, SP, "m">>

\* `<34>1 2003-10-11T22:14:15Z h a p i [e k=v] m'
G5424_10 ==
    <<"<", "3", "4", ">", "1", SP, "2", "0", "0", "3", "-", "1", "0", "-", "1", "1", "T", "2",
      "2", ":", "1", "4", ":", "1", "5", "Z", SP, "h", SP, "a", SP, "p", SP, "i", SP, "[", "e",
      SP, "k", "=", "v", "]", SP, "m">>

\* `<34>1 2003-10-11T22:14:15Z h a p i [e k="v] m'
G5424_11 ==
    <<"<", "3", "4", ">", "1", SP, "2", "0", "0", "3", "-", "1", "0", "-", "1", "1", "T", "2",
      "2", ":", "1", "4", ":", "1", "5", "Z", SP, "h", SP, "a", SP, "p", SP, "i", SP, "[", "e",
      SP, "k", "=", QUOTE, "v", "]", SP, "m">>

\* `<34>1 2003-10-11T22:14:15Z h a p i [e k="v"][f k] m'
G5424_12 ==
    <<"<", "3", "4", ">", "1", SP, "2", "0", "0", "3", "-", "1", "0", "-", "1", "1", "T", "2",
      "2", ":", "1", "4", ":", "1", "5", "Z", SP, "h", SP, "a", SP, "p", SP, "i", SP, "[", "e",
      SP, "k", "=", QUOTE, "v", QUOTE, "]", "[", "f", SP, "k", "]", SP, "m">>

\* `<34>1 2003-10-11T22:14:15Z h a p i e m'
G5424_13 ==
    <<"<", "3", "4", ">", "1", SP, "2", "0", "0", "3", "-", "1", "0", "-", "1", "1", "T", "2",
      "2", ":", "1", "4", ":", "1", "5", "Z", SP, "h", SP, "a", SP, "p", SP, "i", SP, "e", SP,
      "m">>

\* `<34>1 2003-10-11T22:14:15Z h a p'
G5424_14 ==
    <<"<", "3", "4", ">", "1", SP, "2", "0", "0", "3", "-", "1", "0", "-", "1", "1", "T", "2",
      "2", ":", "1", "4", ":", "1", "5", "Z", SP, "h", SP, "a", SP, "p">>

\* `<34>1 2003-10-11T22:14:15Z  a p i - m'
G5424_15 ==
    <<"<", "3", "4", ">", "1", SP, "2", "0", "0", "3", "-", "1", "0", "-", "1", "1", "T", "2",
      "2", ":", "1", "4", ":", "1", "5", "Z", SP, SP, "a", SP, "p", SP, "i", SP, "-", SP, "m">>

\* `<34>12003-10-11T22:14:15Z h a p i - m'
G5424_16 ==
    <<"<", "3", "4", ">", "1", "2", "0", "0", "3", "-", "1", "0", "-", "1", "1", "T", "2", "2",
      ":", "1", "4", ":", "1", "5", "Z", SP, "h", SP, "a", SP, "p", SP, "i", SP, "-", SP, "m">>

\* `<34>1 2003 h a p i - m'
G5424_17 ==
    <<"<", "3", "4", ">", "1", SP, "2", "0", "0", "3", SP, "h", SP, "a", SP, "p", SP, "i", SP,
      "-", SP, "m">>

\* `34>Oct 11 22:14:15 h t m'
GNoLT_1 ==
    <<"3", "4", ">", "O", "c", "t", SP, "1", "1", SP, "2", "2", ":", "1", "4", ":", "1", "5",
      SP, "h", SP, "t", SP, "m">>

\* `Oct 11 22:14:15 h t m'
GNoLT_2 ==
    <<"O", "c", "t", SP, "1", "1", SP, "2", "2", ":", "1", "4", ":", "1", "5", SP, "h", SP,
      "t", SP, "m">>

\* the payloads that start with '<'
GrammarPayloads ==
    {G3164_1, G3164_2, G3164_3, G3164_4, G3164_5, G3164_6,
     G3164_7, G3164_8, G3164_9, G3164_10, G3164_11, G3164_12,
     G3164_13, G3164_14, G3164_15, G3164_16, G3164_17, G5424_1,
     G5424_2, G5424_3, G5424_4, G5424_5, G5424_6, G5424_7,
     G5424_8, G5424_9, G5424_10, G5424_11, G5424_12, G5424_13,
     G5424_14, G5424_15, G5424_16, G5424_17}

\* the payloads without the '<', which only an octet count can frame
HeadlessPayloads == {GNoLT_1, GNoLT_2}

GrammarStreams ==
    {payload \o <<LF>> : payload \in GrammarPayloads}
        \cup {OctetFrame(payload) : payload \in GrammarPayloads \cup HeadlessPayloads}
        \cup {OctetFrame(payload \o <<LF>>) : payload \in GrammarPayloads \cup HeadlessPayloads}

GrammarInit ==
    /\ DecoderInit
    /\ pending \in {Stream(0, s) : s \in GrammarStreams}
    /\ SenderInit
    /\ WriterInit
    /\ OtherInit

GrammarNext ==
    \/ FeedAll
    \/ DecodeFed
    \/ StepFraming
    \/ StepImplicitFraming
    \/ StepImplicitFramingMessage
    \/ StepOctetFramingHeader
    \/ StepOctetFraming
    \/ StepOctetFramingMessage

GrammarSpec == GrammarInit /\ [][GrammarNext]_vars

----------------------------------------------------------------------------
(* Properties of the decoder. *)

\* the messages handed out so far, those of the Decode call in progress included
AllMessages == IF pc = "idle" THEN emitted ELSE emitted \o messages

RECURSIVE RawLen(_)
\* the bytes of the raws of a sequence of messages
RawLen(msgs) == IF msgs = <<>> THEN 0 ELSE Len(Head(msgs).raw) + RawLen(Tail(msgs))

RECURSIVE Decimal(_)
\* the value of a string of decimal digits
Decimal(digits) ==
    IF digits = <<>> THEN 0
    ELSE 10 * Decimal(SubSeq(digits, 1, Len(digits) - 1)) + DigitVal(digits[Len(digits)])

\* decode is about to handle decoder state st
AtState(st) == pc = "decode" /\ state = st

\* Decode has returned and has seen every byte fed so far
Decoded == pc = "idle" /\ decodedUpTo = StreamLen(fed)

\* decodeUnknown has read a byte that may start a frame: it puts the byte back
\* and reads it again, without end
Hanging == pc = "unknown_switch" /\ nextByte \in FrameStart

\* C1: Decode terminates on every input: a Decode call in progress returns
\* after finitely many steps (or ends in the run-time fault of C6), also when
\* the Unknown state meets a byte that may start a frame.
C1_DecodeTerminates == (pc = "decode") ~> (pc \in {"idle", "panic"})

\* C2: more than syslogDecodeLimit non-framing bytes followed by one
\* well-formed frame, fed and decoded, yield exactly one Undecoded message
\* followed by exactly one parsed message, which holds the frame.
C2_Resynchronizes ==
    <>(/\ Decoded
       /\ StreamLen(pending) = 0
       /\ Len(emitted) = 2
       /\ emitted[1].kind = "Undecoded"
       /\ emitted[2].kind \in {"RFC3164", "RFC5424"}
       /\ emitted[2].raw \in ResyncFrames)

\* the attributes that are rendered: all but those with the key "syslog"
RECURSIVE renderedAttrs(_)
renderedAttrs(attrs) ==
    IF attrs = <<>> THEN <<>>
    ELSE IF Head(attrs).Key = SyslogKey THEN renderedAttrs(Tail(attrs))
    ELSE <<Head(attrs)>> \o renderedAttrs(Tail(attrs))

\* the structured data that holds the attributes of a record
AttrsElement(attrs) ==
    IF renderedAttrs(attrs) = <<>> THEN <<>>
    ELSE <<[ID |-> <<"A", "t", "t", "r", "s", "@", "1">>, Params |-> renderedAttrs(attrs)]>>

\* the record was handled, and Decode has returned after its bytes were fed
RoundTripDone == Decoded /\ wire # <<>> /\ Bytes(fed) = wire

SameVariant ==
    /\ Len(emitted) = 1
    /\ emitted[1].kind = (IF handler.encode = "encodeRFC3164" THEN "RFC3164" ELSE "RFC5424")

SameHeader ==
    /\ emitted[1].Facility = handler.opts.Facility
    /\ emitted[1].Priority = severityOf(record.Level)
    /\ emitted[1].Hostname = syslogHostname

SameTimestamp == emitted[1].Timestamp = record.Time

SameRFC3164 ==
    /\ emitted[1].MessageTag = syslogAppName(handler.opts.AppName) \o <<"[">> \o syslogProcID \o <<"]", ":">>
    /\ SubSeq(emitted[1].MessageContent, 1, Len(record.Message)) = record.Message

SameRFC5424Header ==
    /\ emitted[1].AppName = syslogAppName(handler.opts.AppName)
    /\ emitted[1].ProcID = syslogProcID
    /\ emitted[1].MsgID = msgIDOf(record.Attrs, 1, handler.msgID)
    /\ emitted[1].SD = AttrsElement(record.Attrs)

SameMsg == emitted[1].Msg = record.Message

\* C3: encode/decode round trip: the bytes a handler of any of the four
\* encodings writes for a record decode to exactly one message of the matching
\* variant, whose facility, severity, timestamp, hostname, app-name or tag,
\* proc-id, msg-id, structured-data parameters and message text are the values
\* that were encoded.
C3_RoundTrip ==
    RoundTripDone =>
        /\ SameVariant
        /\ SameHeader
        /\ SameTimestamp
        /\ emitted[1].kind = "RFC3164" => SameRFC3164
        /\ emitted[1].kind = "RFC5424" => SameRFC5424Header /\ SameMsg

HeaderLen(raw) == indexOf(raw, SP, 1)
Declared(raw) == Decimal(SubSeq(raw, 1, HeaderLen(raw) - 1))

\* C5: octet framing never mis-slices: while payload bytes are missing the
\* decoder waits with the count of the missing bytes, and once the declared
\* length is there it emits exactly one message, whose raw bytes are the header
\* and exactly the declared number of the bytes that follow it in the input,
\* and the rest of the input is what framing detection sees next.
C5_OctetFramingExact ==
    /\ [](state = syslogDecodeOctetFraming =>
            /\ octets = Declared(decoding.raw)
            /\ octetsRemaining = octets - (Len(decoding.raw) - HeaderLen(decoding.raw))
            /\ (pc = "idle" => octetsRemaining > 0))
    /\ [][AtState(syslogDecodeOctetFramingMessage) =>
            /\ pc' = "decode"
            /\ state' = syslogDecodeFraming
            /\ messages' = Append(messages, messages'[Len(messages')])
            /\ LET raw == messages'[Len(messages')].raw
                   start == RawLen(AllMessages)
               IN  /\ HeaderLen(raw) > 1
                   /\ Len(raw) = HeaderLen(raw) + Declared(raw)
                   /\ raw = SubSeq(Bytes(fed), start + 1, start + Len(raw))
                   /\ Bytes(buffer') = SubSeq(Bytes(fed), start + Len(raw) + 1, StreamLen(fed))]_vars

\* C6: a malformed frame never fails the decoder: every complete frame, also
\* one truncated anywhere in the grammar, is returned as a message that holds
\* the frame, no run-time fault occurs, and framing detection goes on with the
\* bytes that are left.
C6_MalformedRecovered ==
    [][(AtState(syslogDecodeImplicitFramingMessage) \/ AtState(syslogDecodeOctetFramingMessage)) =>
            /\ pc' = "decode"
            /\ state' = syslogDecodeFraming
            /\ Len(messages') = Len(messages) + 1
            /\ messages'[Len(messages')].raw = decoding.raw
            /\ buffer' = buffer]_vars

\* what the next buffered byte is to framing detection
NextByteIs(S) == StreamLen(buffer) > 0 /\ ReadByte(buffer).byte \in S

\* C10 as stated: in state Framing the next byte is looked at and not consumed;
\* '<' selects ImplicitFraming, every ASCII digit selects OctetFramingHeader,
\* every other byte selects Unknown, and an empty buffer leaves Framing.
C10_FramingAnyDigit ==
    [][AtState(syslogDecodeFraming) =>
            /\ buffer' = buffer
            /\ StreamLen(buffer) = 0 => state' = syslogDecodeFraming
            /\ NextByteIs({"<"}) => state' = syslogDecodeImplicitFraming
            /\ NextByteIs(Digits) => state' = syslogDecodeOctetFramingHeader
            /\ NextByteIs(Alphabet \ (Digits \cup {"<"})) => state' = syslogDecodeUnknown]_vars

\* C10 amended: the digits '1' through '9' select OctetFramingHeader; '0',
\* like every other byte but '<', selects Unknown.
C10_FramingDetection ==
    [][AtState(syslogDecodeFraming) =>
            /\ buffer' = buffer
            /\ StreamLen(buffer) = 0 => state' = syslogDecodeFraming /\ pc' = "idle"
            /\ NextByteIs({"<"}) => state' = syslogDecodeImplicitFraming
            /\ NextByteIs(Digits \ {"0"}) => state' = syslogDecodeOctetFramingHeader
            /\ NextByteIs({"0"}) => state' = syslogDecodeUnknown
            /\ NextByteIs(Alphabet \ (Digits \cup {"<"})) => state' = syslogDecodeUnknown]_vars

\* C10 witness: framing detection has just sent a leading '0' to Unknown,
\* and the byte is still buffered
C10_Witness ==
    /\ AtState(syslogDecodeUnknown)
    /\ decoding = Msg(<<>>)
    /\ NextByteIs({"0"})

----------------------------------------------------------------------------
(* Properties of the writer. *)

\* the connections that are open
OpenConns == {i \in 1..Len(conns) : conns[i] = "open"}

\* caller c is in, or has returned from, a call of Write
InWrite(c) == wlocal[c].op = "Write"

\* the call of caller c is over but for the deferred Unlock, or has returned
Returning(c) == wpc[c] \in {"unlock", "idle"}

\* C7: when conn.Write fails on the established connection, Write closes that
\* connection and clears w.conn before it returns the error, with exactly one
\* send attempt in the call; and a Write that sends does so on an open
\* connection, so the Write after a failed one has dialed a new connection.
C7_ReconnectOnFailure ==
    /\ \A c \in Callers :
          (InWrite(c) /\ wlocal[c].sendFailed /\ Returning(c)) =>
              /\ conns[wlocal[c].used] = "closed"
              /\ wlocal[c].sends = 1
              /\ wlocal[c].err
              /\ wpc[c] = "unlock" => conn = 0
    /\ \A c \in Callers :
          wpc[c] = "send" => conn # 0 /\ conns[conn] = "open"
    /\ \A c, d \in Callers :
          (InWrite(c) /\ wlocal[c].sendFailed /\ Returning(c) /\ wpc[d] = "send") =>
              conn # wlocal[c].used

\* C7 witness: a Write has failed to send and has returned, and a later Write
\* is about to send on a connection dialed after the failure
C7_Witness ==
    \E c, d \in Callers :
        /\ InWrite(c) /\ wlocal[c].sendFailed /\ wpc[c] = "idle"
        /\ wpc[d] = "send" /\ wlocal[d].dials = 1
        /\ conn > wlocal[c].used

\* C8: the calls are serialized by the mutex: at most one call is between Lock
\* and Unlock, and it holds the mutex; at most one connection is open; and an
\* open connection is w.conn, or was just dialed by the call that holds the
\* mutex and is stored next; with the mutex free it is w.conn.
C8_Serialized ==
    /\ Cardinality({c \in Callers : wpc[c] \in Critical}) <= 1
    /\ \A c \in Callers : wpc[c] \in Critical <=> mutex = c
    /\ Cardinality(OpenConns) <= 1
    /\ \A i \in OpenConns :
          \/ conn = i
          \/ \E c \in Callers : mutex = c /\ wpc[c] = "assign" /\ wlocal[c].conn = i
    /\ mutex = 0 => OpenConns \subseteq {conn}
    /\ conn # 0 => conn \in OpenConns \/ \E c \in Callers : mutex = c /\ wpc[c] = "clear"

\* C8 witness: two first writes at once: one has dialed and holds the
\* connection, the other waits for the mutex
C8_Witness ==
    \E c, d \in Callers :
        /\ c # d
        /\ InWrite(c) /\ wpc[c] = "send" /\ wlocal[c].dials = 1
        /\ InWrite(d) /\ wpc[d] = "lock"
        /\ Len(conns) = 1

\* C9: when Write is called without a connection and the dial fails, Write
\* returns (0, err) after that one dial attempt and without a send, the writer
\* is without a connection as before, and a Write that finds no connection
\* dials.
C9_DialFailure ==
    /\ [](\A c \in Callers :
            (InWrite(c) /\ wlocal[c].dialFailed /\ Returning(c)) =>
                /\ wlocal[c].n = 0
                /\ wlocal[c].err
                /\ wlocal[c].dials = 1
                /\ wlocal[c].sends = 0
                /\ wpc[c] = "unlock" => conn = 0 /\ OpenConns = {})
    /\ [][\A c \in Callers :
            (InWrite(c) /\ wpc[c] = "check" /\ conn = 0) => wpc'[c] \in {"check", "dial"}]_vars
    /\ [][\A c \in Callers :
            (wpc[c] = "dial" /\ wpc'[c] = "unlock") =>
                /\ conn' = conn /\ conns' = conns /\ conn = 0]_vars

\* C9 witness: a Write has returned from a failed dial, and a later Write has
\* dialed again
C9_Witness ==
    \E c, d \in Callers :
        /\ InWrite(c) /\ wlocal[c].dialFailed /\ wpc[c] = "idle"
        /\ InWrite(d) /\ wpc[d] = "assign"
        /\ conn = 0

\* C22: a network that is not recognized is a matter of making the writer,
\* where the default takes its place: no Write returns dial's error of an
\* unrecognized network.
C22_UnrecognizedNetworkNoWriteError ==
    \A c \in Callers : (InWrite(c) /\ Returning(c)) => ~wlocal[c].unrecognized

----------------------------------------------------------------------------
(* Further properties of the decoder. *)

\* the decoder is as a zero-value decoder but for its buffer
AtRest ==
    /\ state = syslogDecodeFraming
    /\ decoding = NilMsg
    /\ octets = 0
    /\ octetsRemaining = 0

\* C11: a zero-value decoder is in state Framing, and whenever the decoder
\* emits a message, of any variant, it is afterwards in state Framing with no
\* message in progress and both counters 0.
C11_EmissionReturnsToFraming ==
    /\ AtRest
    /\ [][Len(messages') > Len(messages) => AtRest']_vars

\* C11 witness: an octet-counted frame was just emitted as a parsed message,
\* and the decoder is in Framing with its counters 0
C11_Witness ==
    /\ AtState(syslogDecodeFraming)
    /\ AtRest
    /\ Len(messages) = 1
    /\ messages[1].kind = "RFC3164"
    /\ messages[1].raw[1] \in Digits

\* the frames of the input stream, those not fed yet included
StreamFrames == CHOOSE fs \in FrameSeqs : Flatten(fs) = Bytes(Cat(fed, pending))

RECURSIVE completeFrames(_, _)
\* how many of the frames fs are complete within the first n bytes
completeFrames(fs, n) ==
    IF fs = <<>> \/ Len(Head(fs)) > n THEN 0
    ELSE 1 + completeFrames(Tail(fs), n - Len(Head(fs)))

\* the variant a well-formed frame is of
FrameKind(f) ==
    IF f \in {Frame3164, OctetFrame(WithoutLF(Frame3164))} THEN "RFC3164" ELSE "RFC5424"

\* message i is frame i, parsed
messageIsFrame(msgs, fs, i) == msgs[i].raw = fs[i] /\ msgs[i].kind = FrameKind(fs[i])

\* the messages are the first k frames, in order
messagesAreFrames(msgs, fs, k) ==
    Len(msgs) = k /\ \A i \in 1..k : messageIsFrame(msgs, fs, i)

\* C12: Decode returns, in stream order, every message that is complete in the
\* bytes buffered so far: whenever Decode has returned, the messages returned
\* by all Decode calls so far are exactly the frames that were complete in the
\* bytes fed before the last call, each of its variant, none twice and none
\* skipped (so k complete frames fed before one Decode yield k messages, no
\* complete frame yields none, and a later Decode goes on with what was left).
C12_DecodeReturnsCompleteFrames ==
    pc = "idle" =>
        messagesAreFrames(emitted, StreamFrames, completeFrames(StreamFrames, decodedUpTo))

\* C12 witness: one Decode call has returned two messages, fed before it
C12_Witness ==
    /\ Decoded
    /\ Len(messages) = 2
    /\ Len(emitted) = 2
    /\ emitted[1].kind # emitted[2].kind

\* a newline is buffered
LineBuffered == indexOf(Bytes(buffer), LF, 1) > 0

\* C13 as stated: in ImplicitFraming without a buffered newline Decode returns
\* no message, the partial data stay in the accumulation buffer, and the
\* decoder stays in ImplicitFraming.
C13_PartialLineNotConsumed ==
    [][(AtState(syslogDecodeImplicitFraming) /\ ~LineBuffered) =>
            /\ buffer' = buffer
            /\ state' = syslogDecodeImplicitFraming
            /\ pc' = "idle"
            /\ messages' = messages]_vars

\* C13 amended: in ImplicitFraming without a buffered newline Decode returns
\* no message and the decoder stays in ImplicitFraming; the partial data are
\* taken out of the accumulation buffer, which is left empty, and are kept in
\* the message in progress; once the newline is fed the message in progress is
\* continued up to the newline.
C13_PartialLineKept ==
    /\ [][(AtState(syslogDecodeImplicitFraming) /\ ~LineBuffered) =>
            /\ StreamLen(buffer') = 0
            /\ decoding' = Msg(decoding.raw \o Bytes(buffer))
            /\ state' = syslogDecodeImplicitFraming
            /\ pc' = "idle"
            /\ messages' = messages]_vars
    /\ [][(AtState(syslogDecodeImplicitFraming) /\ LineBuffered) =>
            /\ decoding'.raw \o Bytes(buffer') = decoding.raw \o Bytes(buffer)
            /\ decoding'.raw[Len(decoding'.raw)] = LF
            /\ indexOf(decoding'.raw, LF, 1) = Len(decoding'.raw)
            /\ state' = syslogDecodeImplicitFramingMessage]_vars

\* C13 witness: Decode has returned in the middle of a line: the bytes of the
\* line fed so far are in the message in progress, and the rest is still to
\* be fed
C13_Witness ==
    /\ Decoded
    /\ state = syslogDecodeImplicitFraming
    /\ Len(decoding.raw) > 1
    /\ StreamLen(buffer) = 0
    /\ messages = <<>>
    /\ StreamLen(pending) > 0

RECURSIVE firstNotIn(_, _, _)
\* the least i >= from with s[i] not in S, or 0
firstNotIn(s, S, from) ==
    IF from > Len(s) THEN 0
    ELSE IF s[from] \notin S THEN from
    ELSE firstNotIn(s, S, from + 1)

RECURSIVE overflowAt(_, _, _)
\* the least i such that the leading digits of s up to i are a number above
\* syslogDecodeLimit, or 0
overflowAt(s, i, val) ==
    IF i > Len(s) \/ s[i] \notin Digits THEN 0
    ELSE IF 10 * val + DigitVal(s[i]) > syslogDecodeLimit THEN i
    ELSE overflowAt(s, i + 1, 10 * val + DigitVal(s[i]))

\* what becomes of a header whose bytes so far are h, with q the place where
\* its digits exceed the limit and p the place of its first byte that is no digit
headerOutcome(h, q, p) ==
    IF q > 0 THEN [state |-> syslogDecodeUnknown, raw |-> SubSeq(h, 1, q)]
    ELSE IF p = 0 THEN [state |-> syslogDecodeOctetFramingHeader, raw |-> h]
    ELSE IF h[p] = SP THEN [state |-> syslogDecodeOctetFraming, raw |-> SubSeq(h, 1, p)]
    ELSE [state |-> syslogDecodeUnknown, raw |-> SubSeq(h, 1, p)]

HeaderOutcome(h) == headerOutcome(h, overflowAt(h, 1, 0), firstNotIn(h, Digits, 1))

\* the messages that came in octet-counted frames
OctetFramed(msgs) == {i \in 1..Len(msgs) : msgs[i].raw[1] \in Digits}

\* C14: while the header digits are read, the header is given up for Unknown as
\* soon as the declared length is above syslogDecodeLimit, and at a byte that is
\* neither a digit nor the space that ends the header; a header that ends with
\* the space declares at most syslogDecodeLimit bytes, and no message of an
\* octet-counted frame that declares more is ever emitted.
C14_OctetHeaderLimit ==
    /\ [][AtState(syslogDecodeOctetFramingHeader) =>
            /\ state' = HeaderOutcome(decoding.raw \o Bytes(buffer)).state
            /\ decoding'.raw = HeaderOutcome(decoding.raw \o Bytes(buffer)).raw
            /\ state' = syslogDecodeOctetFraming =>
                  /\ octets' = Declared(decoding'.raw)
                  /\ octets' <= syslogDecodeLimit
                  /\ octetsRemaining' = octets']_vars
    /\ [](state \in {syslogDecodeOctetFraming, syslogDecodeOctetFramingMessage} =>
            octets <= syslogDecodeLimit)
    /\ [](\A i \in OctetFramed(AllMessages) : Declared(AllMessages[i].raw) <= syslogDecodeLimit)

\* C14 witness: the header 32768 was given up at its last digit
C14_Witness ==
    /\ AtState(syslogDecodeUnknown)
    /\ octets = syslogDecodeLimit + 1
    /\ decoding.raw = Itoa(syslogDecodeLimit + 1)
    /\ Len(Bytes(buffer)) = 1

\* C15: Reset leaves the decoder as a new one (empty buffer, Framing, no
\* message in progress, both counters 0), and what Decode returns afterwards is
\* what a new decoder returns for the bytes fed since Reset: no byte fed before
\* Reset is part of a message emitted after it.
C15_ResetIsFresh ==
    /\ [][ResetDecoder =>
            /\ buffer' = EmptyStream
            /\ state' = syslogDecodeFraming
            /\ decoding' = NilMsg
            /\ octets' = 0
            /\ octetsRemaining' = 0]_vars
    /\ [](Decoded =>
            /\ DecodeWhole(Bytes(fed)).pc = "idle"
            /\ DecodeWhole(Bytes(fed)).messages = emitted)

\* C15 witness: Reset came in the middle of a stream that ends with an RFC3164
\* frame (no stream starts with that frame and ends after it), and that frame
\* alone was fed and returned after it
C15_Witness ==
    /\ Decoded
    /\ Bytes(fed) = Frame3164
    /\ StreamLen(pending) = 0
    /\ Len(emitted) = 1
    /\ emitted[1].kind = "RFC3164"
    /\ emitted[1].raw = Frame3164

----------------------------------------------------------------------------
(* Properties of the handler, read from the bytes it writes.                *)

\* the number written between '<' and '>'
SignedDecimal(digits) ==
    IF digits # <<>> /\ Head(digits) = "-" THEN 0 - Decimal(Tail(digits)) ELSE Decimal(digits)

WirePRI == SignedDecimal(SubSeq(wire, indexOf(wire, "<", 1) + 1, indexOf(wire, ">", 1) - 1))

\* the facility the claim gives a handler made with facility f
claimedFacility(f) == IF f < 0 \/ 23 < f THEN defaultSyslogFacility ELSE f

\* C16: the PRI written is facility * 8 + severity with a facility in 0..23:
\* the facility of the options if it is in that range, else the default 16.
C16_FacilityInRange ==
    wire # <<>> =>
        /\ WirePRI = claimedFacility(handler.opts.Facility) * 8 + severityOf(record.Level)
        /\ WirePRI \div 8 \in 0..23

\* the severity the claim gives a level
claimedSeverity(level) ==
    CASE level = "Notice" -> 5
      [] level = "Error" -> 3
      [] level = "Warn" -> 4
      [] level = "Info" -> 6
      [] level = "Debug" -> 7

\* C17: the severity written is 5 for Notice, 3 for Error, 4 for Warn, 6 for
\* Info and 7 for Debug.
C17_SeverityOfLevel == wire # <<>> => WirePRI % 8 = claimedSeverity(record.Level)

\* the message as the handler's encoder renders it, before it is framed
Rendered == encode(handler, getMessageBuilder, record).buffer

\* the encodings that end a message with a newline; the others count its bytes
ImplicitEncodings == {SyslogEncodingRFC3164, SyslogEncodingRFC5424}

\* the number of bytes b in s
Count(s, b) == Cardinality({i \in 1..Len(s) : s[i] = b})

\* the bytes of wire after its first space
AfterHeader == SubSeq(wire, HeaderLen(wire) + 1, Len(wire))

\* C18: with an implicit-framing encoding the handler writes the rendered
\* message followed by exactly one newline; with an octet-framing encoding it
\* writes the length of the rendered message in decimal digits, one space, and
\* the rendered message without a newline after it.
C18_FramingOnWrite ==
    wire # <<>> =>
        IF handler.opts.Encoding \in ImplicitEncodings
        THEN /\ wire = Rendered \o <<LF>>
             /\ Count(wire, LF) = 1
        ELSE /\ HeaderLen(wire) > 1
             /\ \A i \in 1..(HeaderLen(wire) - 1) : wire[i] \in Digits
             /\ wire[1] # "0"
             /\ Declared(wire) = Len(Rendered)
             /\ AfterHeader = Rendered
             /\ Len(AfterHeader) = Declared(wire)
             /\ wire[Len(wire)] # LF

\* C18 witness: an RFC5424 message with an attribute written with its length
C18_Witness ==
    /\ wire # <<>>
    /\ handler.opts.Encoding = SyslogEncodingRFC5424F
    /\ HeaderLen(wire) = 3
    /\ Declared(wire) = Len(wire) - 3
    /\ Len(record.Attrs) > 0

\* the message without its framing
Unframed ==
    IF handler.opts.Encoding \in ImplicitEncodings THEN SubSeq(wire, 1, Len(wire) - 1)
    ELSE AfterHeader

RECURSIVE fieldStart(_, _, _)
\* where the n-th of the fields of s starts, the fields one space apart
fieldStart(s, n, from) ==
    IF n <= 1 THEN from ELSE fieldStart(s, n - 1, indexOf(s, SP, from) + 1)

\* the n-th field of s, and what follows it
FieldOf(s, n) == SubSeq(s, fieldStart(s, n, 1), indexOf(s, SP, fieldStart(s, n, 1)) - 1)
AfterField(s, n) == SubSeq(s, indexOf(s, SP, fieldStart(s, n, 1)), Len(s))

RECURSIVE sdParams(_)
\* the parameters of the attributes that are not reserved: for each a space,
\* the key, '=' and the quoted value
sdParams(attrs) ==
    IF attrs = <<>> THEN <<>>
    ELSE IF Head(attrs).Key = SyslogKey THEN sdParams(Tail(attrs))
    ELSE <<SP>> \o Head(attrs).Key \o <<"=">> \o Quote(Head(attrs).Value) \o sdParams(Tail(attrs))

RECURSIVE Concat(_)
Concat(seqs) == IF seqs = <<>> THEN <<>> ELSE Head(seqs) \o Concat(Tail(seqs))

\* the structured data of a message with the parameters params
sdBlock(params) ==
    IF params # <<>> THEN <<SP, "[", "A", "t", "t", "r", "s", "@", "1">> \o params \o <<"]", SP>>
    ELSE <<SP, "-", SP>>

\* the text of the element's opening, and of the absent structured data
AttrsOpen == <<"[", "A", "t", "t", "r", "s", "@", "1">>

Contains(s, t) == \E i \in 1..(Len(s) - Len(t) + 1) : SubSeq(s, i, i + Len(t) - 1) = t

StartsWith(s, t) == Len(s) >= Len(t) /\ SubSeq(s, 1, Len(t)) = t

\* an RFC5424 message was written
Wrote5424 == wire # <<>> /\ handler.encode = "encodeRFC5424"

\* C19: WithAttrs keeps the parameters of the non-reserved attributes it is
\* given (nothing if there is none); in an RFC5424 message the MSGID is followed
\* by the element [Attrs@1 ...] with the parameters kept by WithAttrs and those
\* of the record's non-reserved attributes if there is at least one of them,
\* else by " - ": one of the two, never the element without a parameter, never
\* both.
C19_StructuredDataCommitOrRollback ==
    /\ [][\A attrs \in WithAttrLists \ {<<>>} :
            CallWithAttrs(attrs) =>
                handler'.prerenderdAttrs = Append(handler.prerenderdAttrs, sdParams(attrs))]_vars
    /\ [](Wrote5424 =>
            /\ AfterField(Unframed, 6) =
                  sdBlock(Concat(handler.prerenderdAttrs) \o sdParams(record.Attrs)) \o record.Message
            /\ Contains(Unframed, AttrsOpen) <=>
                  Concat(handler.prerenderdAttrs) \o sdParams(record.Attrs) # <<>>
            /\ Contains(Unframed, AttrsOpen) <=> ~StartsWith(AfterField(Unframed, 6), <<SP, "-", SP>>)
            /\ ~Contains(Unframed, AttrsOpen \o <<"]">>))

\* C19 witness: a handler that WithAttrs gave the reserved attribute only has
\* written a record with the reserved attribute only: no element, though text
\* was kept for both
C19_Witness ==
    /\ Wrote5424
    /\ handler.prerenderdAttrs = <<<<>>>>
    /\ Len(record.Attrs) = 1
    /\ record.Attrs[1].Key = SyslogKey
    /\ StartsWith(AfterField(Unframed, 6), <<SP, "-", SP>>)

RECURSIVE syslogValues(_)
\* the values of the attributes with the reserved key, in their order
syslogValues(attrs) ==
    IF attrs = <<>> THEN <<>>
    ELSE IF Head(attrs).Key = SyslogKey THEN <<Head(attrs).Value>> \o syslogValues(Tail(attrs))
    ELSE syslogValues(Tail(attrs))

\* the reserved key as the key of a rendered parameter or tag
SyslogParam == SyslogKey \o <<"=">>

\* C20: the reserved key "syslog" is never rendered as a parameter or as a
\* key="value" tag, neither from the record nor from WithAttrs, in either
\* encoding; in an RFC5424 message its value is the MSGID: the value in the
\* record, else the value last given to WithAttrs, else "-".
C20_SyslogKeyIsMsgID ==
    /\ [][\A attrs \in WithAttrLists \ {<<>>} :
            CallWithAttrs(attrs) =>
                /\ handler'.msgID =
                      (IF syslogValues(attrs) # <<>>
                       THEN syslogValues(attrs)[Len(syslogValues(attrs))]
                       ELSE handler.msgID)
                /\ ~Contains(Concat(handler'.prerenderdAttrs), SyslogParam)]_vars
    /\ [](handler.prerenderdAttrs = <<>> => handler.msgID = <<"-">>)
    /\ [](wire # <<>> => ~Contains(wire, SyslogParam))
    /\ [](Wrote5424 =>
            FieldOf(Unframed, 6) =
                (IF syslogValues(record.Attrs) # <<>> THEN Head(syslogValues(record.Attrs))
                 ELSE handler.msgID))

\* C20 witness: WithAttrs was given the reserved attribute with another one,
\* and the record that was written has the reserved attribute with another
\* value, which is the MSGID
C20_Witness ==
    /\ Wrote5424
    /\ handler.msgID = <<"j">>
    /\ syslogValues(record.Attrs) = <<<<"i">>>>
    /\ Len(record.Attrs) = 2
    /\ FieldOf(Unframed, 6) = <<"i">>
    /\ Contains(Unframed, AttrsOpen)

\* the handler that differs from h in being made with the default encoding
WithDefaultEncoding(h) == initEncoder([h EXCEPT !.opts.Encoding = SyslogEncodingDefault])

\* C21: a handler made with an unrecognized encoding writes, for every record,
\* the bytes that the handler made with the default encoding writes, framing
\* included.
C21_UnrecognizedEncodingIsDefault ==
    (wire # <<>> /\ handler.opts.Encoding \notin Encodings) =>
        /\ WithDefaultEncoding(handler).header = handler.header
        /\ wire = Handle(WithDefaultEncoding(handler), record).bytes

----------------------------------------------------------------------------
(* Properties of the grammar, read from the frames that were fed.           *)

\* the frame was fed whole, and Decode has returned its message
GrammarDone == Decoded /\ StreamLen(pending) = 0 /\ StreamLen(fed) > 0 /\ Len(emitted) = 1

\* the bytes of a frame behind its octet count, if it has one
PayloadOf(raw) ==
    IF raw[1] \in Digits THEN SubSeq(raw, HeaderLen(raw) + 1, Len(raw)) ELSE raw

\* a payload without its final newline, if it has one
StripLF(pl) == IF pl # <<>> /\ pl[Len(pl)] = LF THEN SubSeq(pl, 1, Len(pl) - 1) ELSE pl

\* where the PRI of a payload ends: the place of its '>', if the payload starts
\* with '<', one digit or more, and '>'; else 0
PRIEnd(pl) ==
    IF /\ Len(pl) >= 3
       /\ pl[1] = "<"
       /\ indexOf(pl, ">", 1) > 2
       /\ \A i \in 2..(indexOf(pl, ">", 1) - 1) : pl[i] \in Digits
    THEN indexOf(pl, ">", 1)
    ELSE 0

\* the payloads that are well-formed in each grammar and end with a text
WellFormed3164 == {G3164_1, G3164_2, G3164_3, G3164_4}
WellFormed5424 == {G5424_1, G5424_2, G5424_3, G5424_4, G5424_5, G5424_6}

\* what C23 says of a message whose payload is pl, with its PRI ending at gt
grammarSelected(m, pl, gt) ==
    (gt > 0 /\ gt < Len(pl)) =>
        /\ m.kind = "RFC3164" => pl[gt + 1] \in MonthLetters
        /\ m.kind = "RFC5424" => pl[gt + 1] = "1"
        /\ pl[gt + 1] \notin MonthLetters \cup {"1"} => m.kind = "Undecoded"
        /\ StripLF(pl) \in WellFormed3164 => m.kind = "RFC3164"
        /\ StripLF(pl) \in WellFormed5424 => m.kind = "RFC5424"

\* C23: in a frame that starts with '<', digits and '>', the byte after '>'
\* selects the grammar: a message is RFC3164 only behind one of J, F, M, A, S, O,
\* N, D, and RFC5424 only behind '1'; behind any other byte it is Undecoded; and
\* a frame that is well-formed in its grammar is a message of that grammar.
C23_GrammarDetection ==
    \A i \in 1..Len(emitted) :
        grammarSelected(emitted[i], PayloadOf(emitted[i].raw), PRIEnd(PayloadOf(emitted[i].raw)))

\* C23 witness: the frame <34>2 ..., well-formed but for its version, is Undecoded
C23_Witness ==
    /\ GrammarDone
    /\ emitted[1].kind = "Undecoded"
    /\ StripLF(PayloadOf(emitted[1].raw)) = G3164_16
    /\ emitted[1].raw[1] = "<"

\* the value of the PRI of a payload whose PRI ends at gt
PRIValue(pl, gt) == Decimal(SubSeq(pl, 2, gt - 1))

\* what C24 says of a message whose payload is pl, with its PRI ending at gt
priParsed(m, pl, gt) ==
    /\ gt = 0 => m.kind = "Undecoded"
    /\ m.kind # "Undecoded" =>
          /\ gt > 0
          /\ m.Facility = PRIValue(pl, gt) \div 8
          /\ m.Priority = PRIValue(pl, gt) % 8

\* C24: the digits between '<' and '>' are the number v, and the decoded
\* message has the facility v div 8 and the severity v mod 8; a frame without
\* the '<', without a digit or without the '>' is Undecoded.
C24_PRIParsing ==
    \A i \in 1..Len(emitted) :
        priParsed(emitted[i], PayloadOf(emitted[i].raw), PRIEnd(PayloadOf(emitted[i].raw)))

\* C24 witness: <191> is facility 23 and severity 7
C24_Witness ==
    /\ GrammarDone
    /\ emitted[1].kind = "RFC3164"
    /\ PRIValue(PayloadOf(emitted[1].raw), PRIEnd(PayloadOf(emitted[1].raw))) = 191
    /\ emitted[1].Facility = 23
    /\ emitted[1].Priority = 7

\* C25: every decoded RFC3164 or RFC5424 message has a facility in 0..23 and a
\* severity in 0..7.
C25_FacilityAndSeverityInRange ==
    \A i \in 1..Len(emitted) :
        emitted[i].kind # "Undecoded" =>
            /\ emitted[i].Facility \in 0..23
            /\ emitted[i].Priority \in 0..7

\* the payload behind its PRI, which ends at gt
Body(pl, gt) == SubSeq(pl, gt + 1, Len(pl))

\* the text of a frame behind the space that follows its n-th field
TextAfter(body, n) == StripLF(Tail(AfterField(body, n)))

\* the RFC3164 payloads of the form <PRI>TIMESTAMP HOSTNAME TAG CONTENT
Form3164 == WellFormed3164 \cup {G3164_5}

\* what C26 says of a message whose payload is pl, with its PRI ending at gt:
\* the timestamp takes three fields (month, day, time)
fields3164(m, pl, gt) ==
    /\ StripLF(pl) \in Form3164 => m.kind = "RFC3164"
    /\ m.kind = "RFC3164" =>
          /\ m.Timestamp = ParseStamp(SubSeq(Body(pl, gt), 1, StampLen)).val
          /\ m.Hostname = FieldOf(Body(pl, gt), 4)
          /\ m.MessageTag = FieldOf(Body(pl, gt), 5)
          /\ m.MessageContent = TextAfter(Body(pl, gt), 5)
    /\ StripLF(pl) \in {G3164_6, G3164_7, G3164_8, G3164_9, G3164_10} => m.kind = "Undecoded"

\* C26: a frame <PRI>TIMESTAMP HOSTNAME TAG CONTENT, with or without a final
\* newline, is an RFC3164 message whose Hostname, MessageTag and MessageContent
\* are those fields, the content being the rest of the frame without the
\* newline; a frame without the timestamp or without one of the spaces is
\* Undecoded.
C26_RFC3164Fields ==
    \A i \in 1..Len(emitted) :
        fields3164(emitted[i], PayloadOf(emitted[i].raw), PRIEnd(PayloadOf(emitted[i].raw)))

\* what C27 says of a message whose payload is pl, with its PRI ending at gt:
\* the version and the timestamp are the first two fields
header5424(m, pl, gt) ==
    /\ StripLF(pl) \in WellFormed5424 => m.kind = "RFC5424"
    /\ m.kind = "RFC5424" =>
          /\ m.Version = 1
          /\ FieldOf(Body(pl, gt), 1) = <<"1">>
          /\ m.Hostname = FieldOf(Body(pl, gt), 3)
          /\ m.AppName = FieldOf(Body(pl, gt), 4)
          /\ m.ProcID = FieldOf(Body(pl, gt), 5)
          /\ m.MsgID = FieldOf(Body(pl, gt), 6)
    /\ m.kind # "RFC5424" => m.Version = 0

\* C27: the hostname, app-name, proc-id and msg-id of an RFC5424 message are
\* the four fields that follow the timestamp, in that order, each as it is
\* written up to its space: the placeholder - is the string "-"; the Version
\* is 1.
C27_RFC5424Header ==
    \A i \in 1..Len(emitted) :
        header5424(emitted[i], PayloadOf(emitted[i].raw), PRIEnd(PayloadOf(emitted[i].raw)))

\* C27 witness: the four fields are the placeholder
C27_Witness ==
    /\ GrammarDone
    /\ emitted[1].kind = "RFC5424"
    /\ emitted[1].Hostname = <<"-">>
    /\ emitted[1].AppName = <<"-">>
    /\ emitted[1].ProcID = <<"-">>
    /\ emitted[1].MsgID = <<"-">>
    /\ StripLF(PayloadOf(emitted[1].raw)) = G5424_3

SDParam(key, value) == [Key |-> key, Value |-> value]
SDElement(id, params) == [ID |-> id, Params |-> params]

\* the payloads whose structured data is one bracketed element or more, and
\* the elements that are written there
ElementsWritten(pl) ==
    CASE pl = G5424_4 -> <<SDElement(<<"e">>, <<SDParam(<<"k">>, <<"v">>)>>)>>
      [] pl = G5424_5 ->
            <<SDElement(<<"e">>, <<SDParam(<<"k">>, <<"v">>), SDParam(<<"l">>, <<"w">>)>>),
              SDElement(<<"f", "@", "1">>, <<SDParam(<<"k">>, <<"x">>)>>)>>
      [] pl = G5424_6 ->
            <<SDElement(<<"e">>, <<SDParam(<<"k">>, <<"a", QUOTE, "b">>),
                                   SDParam(<<"l">>, <<"c", BSLASH>>)>>)>>
      [] pl = G5424_8 -> <<SDElement(<<"e">>, <<>>)>>

Bracketed == {G5424_4, G5424_5, G5424_6, G5424_8}

\* the payloads whose structured data lacks a delimiter
Undelimited == {G5424_9, G5424_10, G5424_11, G5424_12, G5424_13}

\* what C28 says of a message whose payload is pl, with its PRI ending at gt
structuredData(m, pl, gt) ==
    /\ (m.kind = "RFC5424" /\ FieldOf(Body(pl, gt), 7) = <<"-">>) => m.SD = <<>>
    /\ StripLF(pl) \in Bracketed =>
          /\ m.kind = "RFC5424"
          /\ m.SD = ElementsWritten(StripLF(pl))
    /\ StripLF(pl) \in Undelimited => m.kind = "Undecoded"
    /\ m.kind # "RFC5424" => m.SD = <<>>

\* C28: the structured data - is no element; one bracketed element or more
\* are as many elements in the order of the input, each with its id and its
\* parameters in the order of the input; a frame whose element or parameter
\* lacks a delimiter is Undecoded, and has no structured data.
C28_StructuredData ==
    \A i \in 1..Len(emitted) :
        structuredData(emitted[i], PayloadOf(emitted[i].raw), PRIEnd(PayloadOf(emitted[i].raw)))

\* the values quoted in a text, read as C29 reads them: a value opens after
\* an equals sign and a quote; inside it a backslash makes the next byte
\* literal; the first quote that no backslash precedes closes it
RECURSIVE quotedScan(_, _, _, _, _, _)
quotedScan(text, i, inside, escaped, value, values) ==
    IF i > Len(text) THEN values
    ELSE IF ~inside
    THEN IF text[i] = "=" /\ i < Len(text) /\ text[i + 1] = QUOTE
         THEN quotedScan(text, i + 2, TRUE, FALSE, <<>>, values)
         ELSE quotedScan(text, i + 1, FALSE, FALSE, <<>>, values)
    ELSE IF escaped THEN quotedScan(text, i + 1, TRUE, FALSE, Append(value, text[i]), values)
    ELSE IF text[i] = BSLASH THEN quotedScan(text, i + 1, TRUE, TRUE, value, values)
    ELSE IF text[i] = QUOTE THEN quotedScan(text, i + 1, FALSE, FALSE, <<>>, Append(values, value))
    ELSE quotedScan(text, i + 1, TRUE, FALSE, Append(value, text[i]), values)

QuotedValues(text) == quotedScan(text, 1, FALSE, FALSE, <<>>, <<>>)

\* the values of the parameters of the elements sd, in their order
RECURSIVE paramValues(_, _, _)
paramValues(sd, e, p) ==
    IF e > Len(sd) THEN <<>>
    ELSE IF p > Len(sd[e].Params) THEN paramValues(sd, e + 1, 1)
    ELSE <<sd[e].Params[p].Value>> \o paramValues(sd, e, p + 1)

\* the payloads with an escape inside a quoted value
Escaped == {G5424_6}

\* C29: the parameter values of a decoded RFC5424 message are the quoted
\* values of its frame unescaped: backslash quote gives one quote and does
\* not end the value, backslash backslash gives one backslash, and the value
\* ends at the first quote that is not escaped.
C29_ParamValuesUnescaped ==
    \A i \in 1..Len(emitted) :
        /\ emitted[i].kind = "RFC5424" =>
              paramValues(emitted[i].SD, 1, 1) = QuotedValues(PayloadOf(emitted[i].raw))
        /\ StripLF(PayloadOf(emitted[i].raw)) \in Escaped => emitted[i].kind = "RFC5424"

C29_Witness ==
    /\ GrammarDone
    /\ emitted[1].kind = "RFC5424"
    /\ StripLF(PayloadOf(emitted[1].raw)) \in Escaped
    /\ paramValues(emitted[1].SD, 1, 1) = << <<"a", QUOTE, "b">>, <<"c", BSLASH>> >>

----------------------------------------------------------------------------
(* Properties of the writes of a record. *)

\* the complete framed message of record r handled by h: the encoded
\* message closed by a line feed, or led by its length and a space
FramedMessage(h, r) ==
    IF implicitFraming(h)
    THEN encode(h, getMessageBuilder, r).buffer \o <<LF>>
    ELSE OctetFrame(encode(h, getMessageBuilder, r).buffer)

\* the callers that are in Write or have returned from it
Writing == {c \in Callers : wlocal[c].op = "Write"}

\* C30: Handle calls Write on its sink exactly once per record, with the
\* complete framed message, and Write passes the slice it got to the
\* connection at most once, whole.
C30_OneRecordOneWrite ==
    /\ record # NoRecord =>
          /\ Len(sink) = 1
          /\ sink[1] = FramedMessage(handler, record)
    /\ \A c \in Writing :
          /\ Len(wlocal[c].written) <= 1
          /\ \A i \in 1..Len(wlocal[c].written) : wlocal[c].written[i] = wlocal[c].b
          /\ wlocal[c].b \in {FramedMessage(handler, r) : r \in WireRecords}

C30_Witness ==
    /\ record # NoRecord
    /\ ~implicitFraming(handler)
    /\ \E c \in Writing :
          /\ wpc[c] = "idle"
          /\ wlocal[c].written = <<sink[1]>>
          /\ wlocal[c].n = 1

----------------------------------------------------------------------------
(* Properties of the bytes and of the counters the decoder keeps. *)

RECURSIVE RawCat(_)
\* the raws of a sequence of messages, one after the other
RawCat(msgs) == IF msgs = <<>> THEN <<>> ELSE Head(msgs).raw \o RawCat(Tail(msgs))

\* the bytes the decoder holds: those of the message in progress, then the
\* unread bytes of the accumulation buffer
Held == decoding.raw \o Bytes(buffer)

\* C34: between Decode calls the bytes fed so far are the raws of the
\* messages emitted so far, then the bytes of the message in progress, then
\* the unread bytes of the buffer: no byte is lost and none is there twice,
\* the bytes skipped in Unknown and those of an abandoned octet header included.
C34_NoByteLost == pc = "idle" => Bytes(fed) = RawCat(emitted) \o Held

\* the octet header is about to be read from its first byte
\* C35: in every state the message in progress holds at most the decode
\* limit of 32767 bytes plus an octet header of at most 6 bytes
C35_BoundedInProgress == Len(decoding.raw) <= syslogDecodeLimit + 6

EntersOctetHeader == AtState(syslogDecodeOctetFramingHeader) /\ decoding.raw = <<>>

\* C36: in state Framing, and when the decoder enters OctetFramingHeader, the
\* declared length and the count of the missing bytes are 0, also after an
\* octet header was abandoned to Unknown.
C36_CountersFresh ==
    (state = syslogDecodeFraming \/ EntersOctetHeader) => (octets = 0 /\ octetsRemaining = 0)

----------------------------------------------------------------------------
(* Properties of the bytes written for records of any level and text. *)

\* C37: with an implicit-framing encoding the bytes written for a record hold
\* exactly one newline, their last byte, whatever the message text and the
\* values of the attributes are.
C37_OneNewlinePerRecord ==
    (wire # <<>> /\ handler.opts.Encoding \in ImplicitEncodings) =>
        /\ wire[Len(wire)] = LF
        /\ \A i \in 1..(Len(wire) - 1) : wire[i] # LF

\* an RFC3164 message was written
Wrote3164 == wire # <<>> /\ handler.encode = "encodeRFC3164"

\* the value of the reserved attribute: that of the record, else the one given
\* to WithAttrs
ReservedValue ==
    IF syslogValues(record.Attrs) # <<>> THEN Head(syslogValues(record.Attrs)) ELSE handler.msgID

\* the record, or the handler through WithAttrs, has the reserved attribute
CarriesReserved == syslogValues(record.Attrs) # <<>> \/ handler.msgID # <<"-">>

\* the RFC3164 message up to the text of the record: PRI, timestamp and header
HeaderPart3164 == SubSeq(Unframed, 1, indexOf(Unframed, ":", indexOf(Unframed, "]", 1)) + 1)

\* C39: an RFC3164 message of a record or handler with the reserved attribute
\* has the attribute's value in its header part, and has no tag with the
\* reserved key.
C39_ReservedAttrInRFC3164 ==
    (Wrote3164 /\ CarriesReserved) =>
        /\ Contains(HeaderPart3164, ReservedValue)
        /\ ~Contains(wire, SyslogParam)

\* the severity that was written
WireSeverity == WirePRI % 8

\* C40: of two records that are not at the notice level, written one after the
\* other by one handler, the one at the higher level is not written with the
\* greater severity number.
C40_SeverityMonotonic ==
    [][(/\ wire # <<>>
        /\ wire' # <<>>
        /\ handler' = handler
        /\ record.Level # "Notice"
        /\ record'.Level # "Notice"
        /\ LevelValue(record.Level) <= LevelValue(record'.Level))
            => WireSeverity' <= WireSeverity]_vars

----------------------------------------------------------------------------
(* Properties of the text of an RFC5424 message. *)

RECURSIVE lastIndexOf(_, _, _)
\* the greatest i <= from with s[i] = b, or 0
lastIndexOf(s, b, from) ==
    IF from < 1 THEN 0 ELSE IF s[from] = b THEN from ELSE lastIndexOf(s, b, from - 1)

\* where the structured data of a body ends: at the - that is its 7th field,
\* else at its last ']'
SDEnd(body) ==
    IF FieldOf(body, 7) = <<"-">> THEN fieldStart(body, 7, 1)
    ELSE lastIndexOf(body, "]", Len(body))

\* MSG: what follows the structured data and one space, without the newline
MSGOf(body) == SubSeq(StripLF(body), SDEnd(body) + 2, Len(StripLF(body)))

\* the payloads <PRI>1 TIMESTAMP HOSTNAME APP-NAME PROCID MSGID SD MSG, and the
\* one that ends with its structured data
Form5424 == WellFormed5424 \cup {G5424_7}

\* what C38 says of a message whose payload is pl, with its PRI ending at gt
msg5424(m, pl, gt) ==
    StripLF(pl) \in Form5424 =>
        /\ m.kind = "RFC5424"
        /\ m.Msg = MSGOf(Body(pl, gt))
        /\ StripLF(pl) = G5424_7 => m.Msg = <<>>

\* C38: the Msg of an RFC5424 frame is the text behind the one space that
\* follows the structured data, up to the end of the frame without its
\* newline; a frame that ends with its structured data has the empty Msg.
C38_RFC5424Msg ==
    \A i \in 1..Len(emitted) :
        msg5424(emitted[i], PayloadOf(emitted[i].raw), PRIEnd(PayloadOf(emitted[i].raw)))

----------------------------------------------------------------------------
(* groupStack: the message builder's stack of open attribute groups. The   *)
(* slices groups and path are modelled with the arrays they point into,    *)
(* because Pop makes path a slice of the array of groups.                  *)

MaxDepth == 3

GroupNames == {<<>>, <<"g">>, <<"h">>}

\* the elements of slice sl
sliceOf(s, sl) == IF sl.arr = 0 THEN <<>> ELSE SubSeq(s.mem[sl.arr], 1, sl.len)

\* cap(sl)
capOf(s, sl) == IF sl.arr = 0 THEN 0 ELSE Len(s.mem[sl.arr])

\* the capacity append grows a full slice of strings to
growCap(cap) == IF cap = 0 THEN 1 ELSE 2 * cap

\* a new array of capacity cap that holds elems and then x
grown(elems, x, cap) ==
    [i \in 1..cap |-> IF i <= Len(elems) THEN elems[i] ELSE IF i = Len(elems) + 1 THEN x ELSE <<>>]

\* s.f = append(s.f, x), g being the other slice of the stack: in place when
\* the capacity allows, else into a new array
appendTo(s, f, g, x) ==
    IF s[f].len < capOf(s, s[f])
    THEN [s EXCEPT !.mem[s[f].arr][s[f].len + 1] = x, ![f].len = @ + 1]
    ELSE [s EXCEPT !.mem[IF s[g].arr = 1 THEN 2 ELSE 1] =
                       grown(sliceOf(s, s[f]), x, growCap(capOf(s, s[f]))),
                   ![f] = [arr |-> IF s[g].arr = 1 THEN 2 ELSE 1, len |-> s[f].len + 1]]

\* an array no slice points into any more is garbage
collected(s) ==
    [s EXCEPT !.mem = [a \in 1..2 |-> IF a \in {s.groups.arr, s.path.arr} THEN s.mem[a] ELSE <<>>]]

\* the path pushed for group: the path on top, the group and a dot
pathPushed(s, group) == sliceOf(s, s.path)[s.path.len] \o group \o <<".">>

pushPath(s, group) == appendTo(s, "path", "groups", pathPushed(s, group))

\* groupStack.Push
groupStackPush(s, group) ==
    IF group = <<>> THEN s
    ELSE IF s.groups.len > 0
    THEN collected(pushPath(appendTo(s, "groups", "path", group), group))
    ELSE [groups |-> [arr |-> 1, len |-> 1], path |-> [arr |-> 2, len |-> 1],
          mem |-> <<<<group>>, <<group \o <<".">>>>>>]

\* groupStack.Pop
groupStackPop(s, group) ==
    IF group = <<>> THEN s
    ELSE collected([s EXCEPT !.groups.len = @ - 1,
                             !.path = [arr |-> s.groups.arr, len |-> s.path.len - 1]])

\* messageBuilder.GroupPath
stackGroupPath(s) == IF s.path.len = 0 THEN <<>> ELSE s.mem[s.path.arr][s.path.len]

\* messageBuilder.pushGroup, for a group attribute or a group of the handler
PushGroup(group) ==
    /\ Len(open) < MaxDepth
    /\ stack' = groupStackPush(stack, group)
    /\ open' = Append(open, group)
    /\ UNCHANGED <<decoderVars, envVars, senderVars, writerVars, fileVars>>

\* messageBuilder.popGroup, deferred by the callback that pushed the group
PopGroup ==
    /\ open # <<>>
    /\ stack' = groupStackPop(stack, open[Len(open)])
    /\ open' = SubSeq(open, 1, Len(open) - 1)
    /\ UNCHANGED <<decoderVars, envVars, senderVars, writerVars, fileVars>>

GroupInit ==
    /\ DecoderInit
    /\ pending = EmptyStream
    /\ SenderInit
    /\ WriterInit
    /\ OtherInit

GroupNext ==
    \/ \E group \in GroupNames : PushGroup(group)
    \/ PopGroup

GroupSpec == GroupInit /\ [][GroupNext]_vars

RECURSIVE DottedPath(_)
\* the names, outermost first, each followed by a dot
DottedPath(names) ==
    IF names = <<>> THEN <<>>
    ELSE IF Head(names) = <<>> THEN DottedPath(Tail(names))
    ELSE Head(names) \o <<".">> \o DottedPath(Tail(names))

\* C33: after matched pushGroup and popGroup calls the group stack and the
\* path stack have the same length, and GroupPath() is the names of the open
\* groups, outermost first, each followed by a dot
C33_GroupPathInvariant ==
    /\ stack.groups.len = stack.path.len
    /\ stackGroupPath(stack) = DottedPath(open)

----------------------------------------------------------------------------
(* fileWriter. A file name is a pair: <<0, 0>> is fileName itself and      *)
(* <<d, i>> is the name rotateFileName derives from it for date d and      *)
(* index i. The configured fileName is known by what the file system does  *)
(* with it: "file" can be opened, "dir" names a directory, "nodir" lies in *)
(* a directory that does not exist, "noaccess" in one that may not be      *)
(* searched.                                                               *)

MaxWrites == 3

MaxDay == 2

FileNames == {"file", "dir", "nodir", "noaccess"}

FileSizeLimits == {0, 2}

WriteSlices == {<<"a">>, <<"b", "c">>}

\* the system call of a Write that fails, if the call gets to it
Faults == {"", "open", "stat", "write"}

BaseName == <<0, 0>>

\* the name rotateFileName never gets to: its loop does not end
Looping == <<-1, -1>>

\* os.Stat in rotateFileName's loop: os.IsNotExist(err)
isNotExist(w, fs, name) == w.fileName # "noaccess" /\ name \notin DOMAIN fs

\* fileWriter.rotateFileName
rotateFileName(w, fs, day) ==
    IF w.fileSizeLimit <= 0 THEN BaseName
    ELSE IF \A i \in 1..(Cardinality(DOMAIN fs) + 1) : ~isNotExist(w, fs, <<day, i>>) THEN Looping
    ELSE <<day, CHOOSE i \in 1..(Cardinality(DOMAIN fs) + 1) :
                    /\ isNotExist(w, fs, <<day, i>>)
                    /\ \A j \in 1..(i - 1) : ~isNotExist(w, fs, <<day, j>>)>>

\* os.OpenFile(name, O_WRONLY|O_CREATE|O_APPEND) fails
openFails(w, name, fault) ==
    \/ fault = "open"
    \/ w.fileName \in {"nodir", "noaccess"}
    \/ w.fileName = "dir" /\ name = BaseName

\* the files after name was opened with O_CREATE
created(fs, name) == [f \in DOMAIN fs \cup {name} |-> IF f \in DOMAIN fs THEN fs[f] ELSE 0]

\* the call's view of the writer and the file system, and the error of the
\* step just taken
Call0(w, fs, hs) == [w |-> w, files |-> fs, handles |-> hs, err |-> ""]

openFile(m, name, fault) ==
    IF openFails(m.w, name, fault) THEN [m EXCEPT !.err = "open"]
    ELSE [m EXCEPT !.files = created(m.files, name), !.handles = @ \cup {name},
                   !.w.file = name, !.err = ""]

\* fileWriter.openIfNeeded; NoFile stands for the empty name
openIfNeeded(m, fileName, fault, day) ==
    IF m.w.file # NoFile THEN [m EXCEPT !.err = ""]
    ELSE openFile(m, IF fileName = NoFile THEN rotateFileName(m.w, m.files, day) ELSE fileName, fault)

\* w.file.Close(); w.file = nil
closed(m) == [m EXCEPT !.handles = @ \ {m.w.file}, !.w.file = NoFile]

\* rotateIfNeeded that keeps the file however large it is
rotateIfNeededNever(m, fault, day) ==
    IF fault = "stat" THEN [m EXCEPT !.err = "stat"] ELSE [m EXCEPT !.err = ""]

\* fileWriter.rotateIfNeeded
rotateIfNeeded(m, fault, day) ==
    IF fault = "stat" THEN [m EXCEPT !.err = "stat"]
    ELSE IF m.w.fileSizeLimit <= 0 \/ m.files[m.w.file] < m.w.fileSizeLimit THEN [m EXCEPT !.err = ""]
    ELSE IF m.w.file = rotateFileName(m.w, m.files, day) THEN [m EXCEPT !.err = ""]
    ELSE openIfNeeded(closed(m), rotateFileName(m.w, m.files, day), fault, day)

\* w.file.Write(b), and the close that follows a failure
fileWrite(m, b, fault) ==
    IF fault = "write" THEN [closed(m) EXCEPT !.err = "write"]
    ELSE [m EXCEPT !.files[m.w.file] = @ + Len(b), !.err = ""]

\* fileWriter.recordLastErrIfNeeded
recordLastErrIfNeeded(w, err) == [w EXCEPT !.lastErr = err]

\* os.Stderr.Write(b): what it returns
stderrWrite(b, stderrFails) ==
    IF stderrFails THEN [b |-> b, n |-> 0, err |-> "stderr"] ELSE [b |-> b, n |-> Len(b), err |-> ""]

\* return os.Stderr.Write(b), after the file error of m
fallback(m, b, stderrFails) ==
    [w |-> recordLastErrIfNeeded(m.w, m.err), files |-> m.files, handles |-> m.handles,
     stderr |-> <<stderrWrite(b, stderrFails)>>,
     ret |-> [n |-> stderrWrite(b, stderrFails).n, err |-> stderrWrite(b, stderrFails).err,
              b |-> b, to |-> NoFile, fileErr |-> m.err, hung |-> FALSE]]

\* return n, err after the write m made to the file
written(m, b, stderrFails) ==
    IF m.err # "" THEN fallback(m, b, stderrFails)
    ELSE [w |-> m.w, files |-> m.files, handles |-> m.handles, stderr |-> <<>>,
          ret |-> [n |-> Len(b), err |-> "", b |-> b, to |-> m.w.file, fileErr |-> "", hung |-> FALSE]]

rotated(m, b, fault, stderrFails) ==
    IF m.err # "" THEN fallback(m, b, stderrFails)
    ELSE written(fileWrite(m, b, fault), b, stderrFails)

opened(m, b, fault, stderrFails, day) ==
    IF m.err # "" THEN fallback(m, b, stderrFails)
    ELSE rotated(rotateIfNeeded(m, fault, day), b, fault, stderrFails)

\* rotateFileName does not return: the call stays in its loop, with the mutex
looping(m, b) ==
    [w |-> m.w, files |-> m.files, handles |-> m.handles, stderr |-> <<>>,
     ret |-> [n |-> 0, err |-> "", b |-> b, to |-> NoFile, fileErr |-> "stat", hung |-> TRUE]]

\* fileWriter.Write
fileWriterWrite(m, b, fault, stderrFails, day) ==
    IF m.w.file = NoFile /\ rotateFileName(m.w, m.files, day) = Looping THEN looping(m, b)
    ELSE opened(openIfNeeded(m, NoFile, fault, day), b, fault, stderrFails, day)

InstallWrite(out) ==
    /\ fw' = out.w
    /\ files' = out.files
    /\ handles' = out.handles
    /\ stderr' = stderr \o out.stderr
    /\ ret' = [calls |-> ret.calls + 1, n |-> out.ret.n, err |-> out.ret.err, b |-> out.ret.b,
               to |-> out.ret.to, fileErr |-> out.ret.fileErr, hung |-> out.ret.hung]

\* a Write call, from the lock of the mutex to its unlock; a call that stays
\* in rotateFileName's loop keeps the mutex, and no later call gets in
Write(b, fault, stderrFails) ==
    /\ ret.calls < MaxWrites
    /\ ~ret.hung
    /\ InstallWrite(fileWriterWrite(Call0(fw, files, handles), b, fault, stderrFails, today))
    /\ UNCHANGED <<today, decoderVars, envVars, senderVars, writerVars, builderVars>>

\* midnight passes
NextDay ==
    /\ today < MaxDay
    /\ today' = today + 1
    /\ UNCHANGED <<fw, files, handles, stderr, ret>>
    /\ UNCHANGED <<decoderVars, envVars, senderVars, writerVars, builderVars>>

FileSpecInit ==
    /\ DecoderInit
    /\ pending = EmptyStream
    /\ SenderInit
    /\ WriterInit
    /\ BuilderInit
    /\ fw \in {NewFileWriter(fileName, limit) : fileName \in FileNames, limit \in FileSizeLimits}
    /\ today = 1
    /\ EmptyDirectory

FileNext ==
    \/ \E b \in WriteSlices, fault \in Faults, stderrFails \in BOOLEAN : Write(b, fault, stderrFails)
    \/ NextDay

FileSpec == FileSpecInit /\ [][FileNext]_vars

\* the size of file f before it exists is 0
sizeOf(fs, f) == IF f \in DOMAIN fs THEN fs[f] ELSE 0

\* the file that is open has reached the size limit
FullFileOpen ==
    /\ fw.fileSizeLimit > 0
    /\ fw.file # NoFile
    /\ files[fw.file] >= fw.fileSizeLimit

\* C31: a Write that cannot open, rotate or write the file writes the bytes to
\* stderr and returns what that write returned; no file is created for a file
\* name that cannot be used; after a failed file write the handle is closed and
\* cleared
C31_FailureHandling ==
    [][ret'.calls = ret.calls + 1 =>
            /\ ret'.fileErr # "" =>
                   stderr' = Append(stderr, [b |-> ret'.b, n |-> ret'.n, err |-> ret'.err])
            /\ fw.fileName # "file" => files' = files
            /\ ret'.fileErr = "write" => (fw'.file = NoFile /\ handles' = {})]_vars

\* C32: with a size limit <= 0 no file but fileName is ever created and a Write
\* appends to it alone; with a limit > 0 no Write appends to a file whose size
\* had reached the limit when the Write started, and a Write that finds such a
\* file open closes it and appends to a file that did not exist before, the
\* number of files growing by one
C32_Rotation ==
    [][ret'.calls = ret.calls + 1 =>
            /\ fw.fileSizeLimit <= 0 =>
                   /\ DOMAIN files' \subseteq {BaseName}
                   /\ ret'.to \in {NoFile, BaseName}
                   /\ ret'.to = BaseName =>
                          files'[BaseName] = sizeOf(files, BaseName) + Len(ret'.b)
            /\ fw.fileSizeLimit > 0 =>
                   /\ \A f \in DOMAIN files :
                          files[f] >= fw.fileSizeLimit => files'[f] = files[f]
                   /\ (FullFileOpen /\ ret'.fileErr = "") =>
                          /\ ret'.to \notin DOMAIN files
                          /\ files'[ret'.to] = Len(ret'.b)
                          /\ fw.file \notin handles'
                          /\ Cardinality(DOMAIN files') = Cardinality(DOMAIN files) + 1]_vars

\* the first file of the day is full and closed, and the last Write went to
\* the second, no call having failed
C32_Witness ==
    /\ fw.fileSizeLimit > 0
    /\ stderr = <<>>
    /\ <<1, 1>> \in DOMAIN files
    /\ files[<<1, 1>>] >= fw.fileSizeLimit
    /\ <<1, 1>> \notin handles
    /\ ret.to = <<1, 2>>

====
